---------------------------- MODULE Spec2Model ----------------------------
(***************************************************************************)
(* BotLink: the operational-security rate governor (OpSecService) of       *)
(* src/src/domain/services/opsec_service.py as a state machine, and the    *)
(* program around it: the application store, BotOrchestrator, the GUI bot  *)
(* thread, the form flows of ApplyToJobUseCase and CamoufoxAdapter and the *)
(* filling of one form field, the extraction of a page's fields and the   *)
(* candidaturas table.  Each has a specification of its own: Spec,         *)
(* SpecLimit and SpecGoverned (Governor), SpecStore, SpecOrch, SpecGui,    *)
(* SpecFlow (with SpecFlowFair for termination), SpecFill, SpecExtract,    *)
(* SpecDb.                                                                 *)
(*                                                                         *)
(* Time is counted in whole minutes since an epoch; `now` is what          *)
(* datetime.now() returns and Date(now) what date.today() returns.         *)
(* OpSecState.last_application_time is written by record_success and       *)
(* record_failure and read by no operation; it is not carried.             *)
(***************************************************************************)
EXTENDS Integers, FiniteSets, Sequences, TLC

VARIABLES
    settings,             \* Settings: the OpSec limits, fixed at construction
    today,                \* OpSecState.today (a day number)
    applications_today,   \* OpSecState.applications_today
    consecutive_errors,   \* OpSecState.consecutive_errors
    account_age_days,     \* OpSecState.account_age_days
    is_paused,            \* OpSecState.is_paused
    pause_until,          \* OpSecState.pause_until (None or a minute)
    now,                  \* the wall clock, in minutes
    op,                   \* the last operation made on the Governor
    pre,                  \* the Governor state that operation started from
    res,                  \* what that operation returned (or raised)
    pause_origin,         \* which code set the pause now held: interval, forced, none
    recorded_since_pause, \* a record_* call was made since the pause was set
    abort_latched         \* consecutive_errors reached the threshold, no reset_daily since

\* The program around the Governor: the application store and
\* BotOrchestrator (src/src/application/use_cases/bot_orchestrator.py)
VARIABLES
    candidaturas,         \* the candidaturas table: one row or none per job_id
    bot_state,            \* BotOrchestrator._state
    stop_requested,       \* BotOrchestrator._stop_requested
    opsec_set,            \* BotOrchestrator._opsec is not None
    browser_set,          \* BotOrchestrator._browser is not None
    job_filter_set,       \* BotOrchestrator.job_filter is not None
    calls,                \* each start() call in flight: the await it is at
    attempt_unrecorded,   \* a job attempt was begun, no record_* call since
    allowed_pending,      \* can_apply returned allowed=true, no attempt since
    attempt_unallowed     \* some job attempt began with no allowance pending

\* The GUI of src/src/presentation/gui/app.py
VARIABLES
    is_running,           \* state["is_running"]
    threads               \* each bot thread: where run_bot_automation is

\* The application flows (src/src/application/use_cases/apply_to_job.py,
\* src/src/infrastructure/browser/camoufox_adapter.py) and the form filler
\* (src/src/infrastructure/ai/form_filler.py)
VARIABLES
    flow,                 \* where execute() is, its form page and its result,
                          \* and whether the stop flag was set when it began
    page_after_stop,      \* a form page was begun with the stop flag set
    apply,                \* CamoufoxAdapter.apply_to_job: its step and result
    fill,                 \* one field being filled: its inputs, what was written
    form,                 \* one form page: its elements, the fields extracted
                          \* from it and the inputs the flow wrote over
    db                    \* the candidaturas table column by column, the
                          \* Application last saved per job_id, the last read

ghostVars == <<attempt_unrecorded, allowed_pending, attempt_unallowed>>

orchVars == <<candidaturas, bot_state, stop_requested, opsec_set,
              browser_set, job_filter_set, calls>>

guiVars == <<is_running, threads>>

flowVars == <<flow, page_after_stop, apply, fill, form, db>>

programVars == <<orchVars, ghostVars, guiVars, flowVars>>

vars == <<settings, today, applications_today, consecutive_errors,
          account_age_days, is_paused, pause_until, now, op, pre, res,
          pause_origin, recorded_since_pause, abort_latched, programVars>>

(***************************************************************************)
(* Bounds of the model.                                                    *)
(***************************************************************************)
MaxApps == 4          \* record_success is not called beyond this count
MaxErrCount == 2      \* record_failure is not called beyond this count
MaxMinuteTicks == 2   \* one-minute clock steps taken within a run
MaxDayTicks == 1      \* whole-day clock steps taken within a run

\* The arguments the administrative calls are made with
AccountAges == {0, 1}
ForceMinutes == {1}

(***************************************************************************)
(* Program constants.                                                      *)
(***************************************************************************)
None == -1
DayMinutes == 1440
NowStart == 1438      \* the run starts at 23:58 of day 0
DEFAULT_LIMIT == 40
WARMUP_SCHEDULE == [d \in {1, 2, 3} |-> 10 * d]

Date(t) == t \div DayMinutes

Min(a, b) == IF a <= b THEN a ELSE b

\* Python's a % n for n # 0: the result has the sign of n.
PyMod(a, n) ==
    IF n > 0 THEN a % n
    ELSE LET r == a % (0 - n) IN IF r = 0 THEN 0 ELSE r + n

(***************************************************************************)
(* Settings: the configurations the runs start from. daily_limit is        *)
(* validated (1..100); the other OpSec fields are unconstrained integers.  *)
(***************************************************************************)
BaseSettings ==
    [daily_limit |-> 3, warmup_enabled |-> TRUE, max_consecutive_errors |-> 2,
     pause_after_applications |-> 2,
     pause_duration_min |-> 1, pause_duration_max |-> 2]

SettingsSet ==
    { BaseSettings,
      [BaseSettings EXCEPT !.warmup_enabled = FALSE],
      [BaseSettings EXCEPT !.pause_after_applications = 0],
      [BaseSettings EXCEPT !.pause_duration_min = 2, !.pause_duration_max = 1],
      [BaseSettings EXCEPT !.pause_duration_min = 0, !.pause_duration_max = 0] }

\* get_daily_limit with the warm-up tiers clamped to the configured limit
DailyLimitClamped(s, age) ==
    IF ~s.warmup_enabled THEN s.daily_limit
    ELSE IF age \in DOMAIN WARMUP_SCHEDULE
           THEN Min(WARMUP_SCHEDULE[age], s.daily_limit)
    ELSE Min(DEFAULT_LIMIT, s.daily_limit)

\* OpSecService.get_daily_limit for a configuration and an account age
DailyLimitOf(s, age) ==
    IF ~s.warmup_enabled THEN s.daily_limit
    ELSE IF age \in DOMAIN WARMUP_SCHEDULE THEN WARMUP_SCHEDULE[age]
    ELSE Min(DEFAULT_LIMIT, s.daily_limit)

(***************************************************************************)
(* The application store and the orchestrator as constructed.              *)
(***************************************************************************)
JobIds == {1, 2}          \* the job_id values rows are saved under
CallIds == {1, 2}         \* the start() calls that can be in flight at once
ThreadIds == {1, 2}       \* the bot threads that can be alive at once
MaxJobs == 2              \* the jobs listed on one page of search results

\* ApplicationStatus
Statuses == {"SUCESSO", "FALHA", "PULADO", "PENDING"}

\* BotState
BotStates == {"IDLE", "STARTING", "RUNNING", "PAUSED", "STOPPING", "ERROR"}

NoRow == [status |-> "NONE", data_hora |-> None]
Row(st, t) == [status |-> st, data_hora |-> t]

NoCall == [pc |-> "idle", wake_at |-> None]

NoThread == [pc |-> "none", jobs_left |-> 0]

NoFlow == [pc |-> "idle", page_num |-> 0, result |-> "NONE", message |-> "",
           begun_stopped |-> FALSE, apply_clicked |-> FALSE,
           fields_parsed |-> FALSE, fields_left |-> 0, tried |-> <<>>,
           clicked |-> <<>>, modal_closed |-> FALSE, total_tokens |-> 0,
           spent |-> 0, tokens_used |-> 0, last_oracle |-> "none"]

\* result = {'success': False, 'message': ''} and no step taken
NoApply == [pc |-> "idle", step |-> 0, success |-> FALSE, message |-> "",
            outcome |-> "none", submit_clicked |-> FALSE,
            dismissed |-> FALSE, caught |-> FALSE]

\* What a fill wrote into the field: a value, or nothing
Written(v) == [set |-> TRUE, value |-> v]
Unset == [set |-> FALSE, value |-> <<>>]

NoCandidate == [name |-> <<>>, email |-> <<>>, phone |-> <<>>]

\* No field is being filled
NoFill == [pc |-> "idle", kind |-> "none", path |-> "none", options |-> <<>>,
           oracle |-> [kind |-> "none", text |-> <<>>], label |-> {},
           candidate |-> NoCandidate, written |-> Unset]

\* No form page is being read
NoForm == [pc |-> "idle", elements |-> <<>>, extractor |-> "none",
           fields |-> <<>>, next |-> 1, overwritten |-> {}]

EmptyTable == [j \in JobIds |-> NoRow]

\* No Application (get_application returns None)
NoApplication == [job_id |-> 0]

\* The candidaturas table after the migrations, nothing saved or read
NoDb == [rows |-> {}, seq |-> 0, lastrowid |-> 0,
         saved |-> [j \in JobIds |-> NoApplication],
         loaded |-> [read |-> FALSE, job_id |-> 0, found |-> NoApplication]]

\* BotOrchestrator.__init__
OrchestratorConstructed ==
    /\ bot_state = "IDLE"
    /\ stop_requested = FALSE
    /\ opsec_set = FALSE
    /\ browser_set = FALSE
    /\ job_filter_set = FALSE
    /\ calls = [c \in CallIds |-> NoCall]
    /\ attempt_unrecorded = FALSE
    /\ allowed_pending = FALSE
    /\ attempt_unallowed = FALSE

\* The GUI as main() builds it: state["is_running"] = False, no bot thread
GuiConstructed ==
    /\ is_running = FALSE
    /\ threads = [t \in ThreadIds |-> NoThread]

\* No execute() call has been made
FlowIdle ==
    /\ flow = NoFlow
    /\ page_after_stop = FALSE
    /\ apply = NoApply
    /\ fill = NoFill
    /\ form = NoForm
    /\ db = NoDb

\* The program as constructed, over an empty store
ProgramIdle ==
    /\ candidaturas = EmptyTable
    /\ OrchestratorConstructed
    /\ GuiConstructed
    /\ FlowIdle

(***************************************************************************)
(* The record of a call.                                                   *)
(***************************************************************************)
Snapshot ==
    [today |-> today, applications_today |-> applications_today,
     consecutive_errors |-> consecutive_errors,
     account_age_days |-> account_age_days,
     is_paused |-> is_paused, pause_until |-> pause_until, now |-> now,
     pause_origin |-> pause_origin,
     recorded_since_pause |-> recorded_since_pause]

Returned(allowed, reason, minutes) ==
    [kind |-> "return", allowed |-> allowed, reason |-> reason,
     minutes |-> minutes, value |-> 0]
Raised(exc) ==
    [kind |-> "raise", allowed |-> FALSE, reason |-> exc, minutes |-> 0,
     value |-> 0]
Void == [kind |-> "void", allowed |-> FALSE, reason |-> "", minutes |-> 0,
         value |-> 0]
Value(v) == [kind |-> "value", allowed |-> FALSE, reason |-> "",
             minutes |-> 0, value |-> v]

Init ==
    /\ settings \in SettingsSet
    /\ now = NowStart
    /\ today = Date(NowStart)
    /\ applications_today = 0
    /\ consecutive_errors = 0
    /\ account_age_days = 0
    /\ is_paused = FALSE
    /\ pause_until = None
    /\ op = "init"
    /\ pre = [today |-> Date(NowStart), applications_today |-> 0,
              consecutive_errors |-> 0, account_age_days |-> 0,
              is_paused |-> FALSE, pause_until |-> None, now |-> NowStart,
              pause_origin |-> "none", recorded_since_pause |-> FALSE]
    /\ res = Void
    /\ pause_origin = "none"
    /\ recorded_since_pause = FALSE
    /\ abort_latched = FALSE
    /\ ProgramIdle

\* OpSecState, BotState and ApplicationStatus: the fields and their types
TypeOK ==
    /\ today \in Nat
    /\ applications_today \in Nat
    /\ consecutive_errors \in Nat
    /\ account_age_days \in Int
    /\ is_paused \in BOOLEAN
    /\ pause_until \in Nat \cup {None}
    /\ now \in Nat
    /\ pause_origin \in {"none", "interval", "forced"}
    /\ recorded_since_pause \in BOOLEAN
    /\ abort_latched \in BOOLEAN
    /\ bot_state \in BotStates
    /\ \A j \in JobIds : candidaturas[j].status \in Statuses \cup {"NONE"}

(***************************************************************************)
(* The conditions OpSecService.can_apply tests, in the order it tests them *)
(***************************************************************************)
\* rollover tests that never fire, or fire on every call
RolloverNever(t, clock) == t > Date(clock)
RolloverAlways(t, clock) == t # clock

\* if self.state.today != date.today()
RolloverDue(t, clock) == t # Date(clock)

\* a pause still held at the minute it ends
PauseActiveInclusive(p, u, clock) == p /\ u # None /\ clock <= u

\* if self.state.is_paused: if self.state.pause_until and now < pause_until
PauseActive(p, u, clock) == p /\ u # None /\ clock < u

\* the limit test, off by one
LimitExceeded(apps, limit) == apps > limit

\* if self.state.applications_today >= limit
LimitReached(apps, limit) == apps >= limit

\* the error test, off by one
AbortExceeded(errs, maxErrs) == errs > maxErrs

\* if self.state.consecutive_errors >= self.settings.max_consecutive_errors
AbortReached(errs, maxErrs) == errs >= maxErrs

\* applications_today > 0 and applications_today % 0: ZeroDivisionError
IntervalRaises(apps, n) == apps > 0 /\ n = 0

\* applications_today > 0 and applications_today % pause_after_applications == 0
IntervalDue(apps, n) == apps > 0 /\ n # 0 /\ PyMod(apps, n) = 0

\* a pause length drawn from 0
PauseMinutesFromZero(lo, hi) == 0..hi

\* random.randint(pause_duration_min, pause_duration_max): empty when min > max
PauseMinutes(lo, hi) == lo..hi

\* the blocks with the error test ahead of the limit test
DecideErrorsFirst(active, apps, errs, limit, maxErrs, n) ==
    IF active THEN "pause_active"
    ELSE IF AbortReached(errs, maxErrs) THEN "abort"
    ELSE IF LimitReached(apps, limit) THEN "daily_limit"
    ELSE IF IntervalRaises(apps, n) THEN "ZeroDivisionError"
    ELSE IF IntervalDue(apps, n) THEN "interval_pause"
    ELSE "allow"

\* The first block of can_apply that applies, in the code's order
Decide(active, apps, errs, limit, maxErrs, n) ==
    IF active THEN "pause_active"
    ELSE IF LimitReached(apps, limit) THEN "daily_limit"
    ELSE IF AbortReached(errs, maxErrs) THEN "abort"
    ELSE IF IntervalRaises(apps, n) THEN "ZeroDivisionError"
    ELSE IF IntervalDue(apps, n) THEN "interval_pause"
    ELSE "allow"

(***************************************************************************)
(* OpSecService.can_apply                                                  *)
(***************************************************************************)
CanApply ==
    LET roll == RolloverDue(today, now)
        apps == IF roll THEN 0 ELSE applications_today
        errs == IF roll THEN 0 ELSE consecutive_errors
        active == PauseActive(is_paused, pause_until, now)
        cleared == is_paused /\ ~active
        lo == settings.pause_duration_min
        hi == settings.pause_duration_max
        block == Decide(active, apps, errs,
                        DailyLimitOf(settings, account_age_days),
                        settings.max_consecutive_errors,
                        settings.pause_after_applications)
        \* the pause fields as the pause check leaves them
        AfterPauseCheck ==
            /\ is_paused' = IF cleared THEN FALSE ELSE is_paused
            /\ pause_until' = IF cleared THEN None ELSE pause_until
            /\ pause_origin' = IF cleared THEN "none" ELSE pause_origin
            /\ recorded_since_pause' =
                 IF cleared THEN FALSE ELSE recorded_since_pause
    IN
    /\ op' = "can_apply"
    /\ pre' = Snapshot
    /\ today' = IF roll THEN Date(now) ELSE today
    /\ applications_today' = apps
    /\ consecutive_errors' = errs
    /\ CASE block = "pause_active" ->
              \* remaining = (pause_until - now).seconds // 60
              /\ res' = Returned(FALSE, "pause_active",
                                 (pause_until - now) % DayMinutes)
              /\ AfterPauseCheck
         [] block \in {"daily_limit", "abort"} ->
              /\ res' = Returned(FALSE, block, 0)
              /\ AfterPauseCheck
         [] block = "ZeroDivisionError" ->
              /\ res' = Raised("ZeroDivisionError")
              /\ AfterPauseCheck
         [] block = "interval_pause" /\ PauseMinutes(lo, hi) = {} ->
              /\ res' = Raised("ValueError")
              /\ AfterPauseCheck
         [] block = "interval_pause" /\ PauseMinutes(lo, hi) # {} ->
              \E m \in PauseMinutes(lo, hi) :
                  /\ res' = Returned(FALSE, "interval_pause", m)
                  /\ is_paused' = TRUE
                  /\ pause_until' = now + m
                  /\ pause_origin' = "interval"
                  /\ recorded_since_pause' = FALSE
         [] block = "allow" ->
              /\ res' = Returned(TRUE, "", 0)
              /\ AfterPauseCheck
    /\ UNCHANGED <<settings, account_age_days, now, abort_latched>>

(***************************************************************************)
(* The recording and administrative operations                             *)
(***************************************************************************)
\* record_success without the reset of consecutive_errors
RecordSuccessKeepsErrors ==
    /\ applications_today < MaxApps
    /\ op' = "record_success"
    /\ pre' = Snapshot
    /\ res' = Void
    /\ applications_today' = applications_today + 1
    /\ recorded_since_pause' = is_paused
    /\ UNCHANGED <<settings, today, consecutive_errors, account_age_days,
                   is_paused, pause_until, now, pause_origin, abort_latched>>

RecordSuccess ==
    /\ applications_today < MaxApps
    /\ op' = "record_success"
    /\ pre' = Snapshot
    /\ res' = Void
    /\ applications_today' = applications_today + 1
    /\ consecutive_errors' = 0
    /\ recorded_since_pause' = is_paused
    /\ UNCHANGED <<settings, today, account_age_days, is_paused, pause_until,
                   now, pause_origin, abort_latched>>

\* record_failure that also counts the attempt as an application
RecordFailureCountsAttempt ==
    /\ consecutive_errors < MaxErrCount
    /\ applications_today < MaxApps
    /\ op' = "record_failure"
    /\ pre' = Snapshot
    /\ res' = Void
    /\ consecutive_errors' = consecutive_errors + 1
    /\ applications_today' = applications_today + 1
    /\ recorded_since_pause' = is_paused
    /\ abort_latched' =
         (abort_latched
            \/ consecutive_errors + 1 >= settings.max_consecutive_errors)
    /\ UNCHANGED <<settings, today, account_age_days, is_paused, pause_until,
                   now, pause_origin>>

RecordFailure ==
    /\ consecutive_errors < MaxErrCount
    /\ op' = "record_failure"
    /\ pre' = Snapshot
    /\ res' = Void
    /\ consecutive_errors' = consecutive_errors + 1
    /\ recorded_since_pause' = is_paused
    /\ abort_latched' =
         (abort_latched
            \/ consecutive_errors + 1 >= settings.max_consecutive_errors)
    /\ UNCHANGED <<settings, today, applications_today, account_age_days,
                   is_paused, pause_until, now, pause_origin>>

\* record_skip that also counts the skip as an application
RecordSkipCounts ==
    /\ applications_today < MaxApps
    /\ op' = "record_skip"
    /\ pre' = Snapshot
    /\ res' = Void
    /\ consecutive_errors' = 0
    /\ applications_today' = applications_today + 1
    /\ recorded_since_pause' = is_paused
    /\ UNCHANGED <<settings, today, account_age_days, is_paused, pause_until,
                   now, pause_origin, abort_latched>>

RecordSkip ==
    /\ op' = "record_skip"
    /\ pre' = Snapshot
    /\ res' = Void
    /\ consecutive_errors' = 0
    /\ recorded_since_pause' = is_paused
    /\ UNCHANGED <<settings, today, applications_today, account_age_days,
                   is_paused, pause_until, now, pause_origin, abort_latched>>

SetAccountAge ==
    \E days \in AccountAges :
        /\ op' = "set_account_age"
        /\ pre' = Snapshot
        /\ res' = Void
        /\ account_age_days' = days
        /\ UNCHANGED <<settings, today, applications_today,
                       consecutive_errors, is_paused, pause_until, now,
                       pause_origin, recorded_since_pause, abort_latched>>

ResetDaily ==
    /\ op' = "reset_daily"
    /\ pre' = Snapshot
    /\ res' = Void
    /\ applications_today' = 0
    /\ consecutive_errors' = 0
    /\ today' = Date(now)
    /\ abort_latched' = FALSE
    /\ UNCHANGED <<settings, account_age_days, is_paused, pause_until, now,
                   pause_origin, recorded_since_pause>>

\* force_pause that sets the flag and leaves the deadline as it was
ForcePauseFlagOnly ==
    /\ op' = "force_pause"
    /\ pre' = Snapshot
    /\ res' = Void
    /\ is_paused' = TRUE
    /\ pause_origin' = "forced"
    /\ recorded_since_pause' = FALSE
    /\ UNCHANGED <<settings, today, applications_today, consecutive_errors,
                   account_age_days, now, abort_latched, pause_until>>

ForcePause ==
    \E minutes \in ForceMinutes :
        /\ op' = "force_pause"
        /\ pre' = Snapshot
        /\ res' = Void
        /\ is_paused' = TRUE
        /\ pause_until' = now + minutes
        /\ pause_origin' = "forced"
        /\ recorded_since_pause' = FALSE
        /\ UNCHANGED <<settings, today, applications_today,
                       consecutive_errors, account_age_days, now,
                       abort_latched>>

\* OpSecService.get_daily_limit, called on its own
GetDailyLimit ==
    /\ op' = "get_daily_limit"
    /\ pre' = Snapshot
    /\ res' = Value(DailyLimitOf(settings, account_age_days))
    /\ UNCHANGED <<settings, today, applications_today, consecutive_errors,
                   account_age_days, is_paused, pause_until, now,
                   pause_origin, recorded_since_pause, abort_latched>>

(***************************************************************************)
(* The clock: datetime.now() moves on by a minute, or by a day.            *)
(***************************************************************************)
Tick ==
    \E step \in {1, DayMinutes} :
        /\ step = 1 => (now - NowStart) % DayMinutes < MaxMinuteTicks
        /\ step = DayMinutes => (now - NowStart) \div DayMinutes < MaxDayTicks
        /\ op' = "tick"
        /\ pre' = Snapshot
        /\ res' = Void
        /\ now' = now + step
        /\ UNCHANGED <<settings, today, applications_today,
                       consecutive_errors, account_age_days, is_paused,
                       pause_until, pause_origin, recorded_since_pause,
                       abort_latched>>

Next ==
    \/ CanApply /\ UNCHANGED programVars
    \/ RecordSuccess /\ UNCHANGED programVars
    \/ RecordFailure /\ UNCHANGED programVars
    \/ RecordSkip /\ UNCHANGED programVars
    \/ SetAccountAge /\ UNCHANGED programVars
    \/ ResetDaily /\ UNCHANGED programVars
    \/ ForcePause /\ UNCHANGED programVars
    \/ Tick /\ UNCHANGED programVars

Spec == Init /\ [][Next]_vars

(***************************************************************************)
(* get_daily_limit over the whole validated range of daily_limit           *)
(***************************************************************************)
MinDailyLimit == 1
MaxDailyLimit == 100
MaxLimitAge == 5      \* the account ages tried are -1..MaxLimitAge

InitLimit ==
    /\ settings \in
         { [daily_limit |-> dl, warmup_enabled |-> w,
            max_consecutive_errors |-> 2, pause_after_applications |-> 2,
            pause_duration_min |-> 1, pause_duration_max |-> 2] :
              dl \in MinDailyLimit..MaxDailyLimit, w \in BOOLEAN }
    /\ account_age_days \in (0 - 1)..MaxLimitAge
    /\ now = NowStart
    /\ today = Date(NowStart)
    /\ applications_today = 0
    /\ consecutive_errors = 0
    /\ is_paused = FALSE
    /\ pause_until = None
    /\ op = "init"
    /\ pre = [today |-> Date(NowStart), applications_today |-> 0,
              consecutive_errors |-> 0, account_age_days |-> account_age_days,
              is_paused |-> FALSE, pause_until |-> None, now |-> NowStart,
              pause_origin |-> "none", recorded_since_pause |-> FALSE]
    /\ res = Void
    /\ pause_origin = "none"
    /\ recorded_since_pause = FALSE
    /\ abort_latched = FALSE
    /\ ProgramIdle

NextLimit == GetDailyLimit /\ UNCHANGED programVars

SpecLimit == InitLimit /\ [][NextLimit]_vars

(***************************************************************************)
(* The application store: SQLiteAdapter over the candidaturas table        *)
(* (src/src/infrastructure/storage/sqlite_adapter.py).                     *)
(***************************************************************************)
opsecVars == <<today, applications_today, consecutive_errors,
               account_age_days, is_paused, pause_until, pause_origin,
               recorded_since_pause, abort_latched>>

\* The rows of one status whose DATE(data_hora) is the day of clock
TodayCountOf(table, clock, st) ==
    Cardinality({ j \in JobIds : /\ table[j].status = st
                                 /\ Date(table[j].data_hora) = Date(clock) })

\* SQLiteAdapter.get_today_count
TodayCount(table, clock) ==
    Cardinality({ j \in JobIds : /\ table[j] # NoRow
                                 /\ Date(table[j].data_hora) = Date(clock) })

\* SQLiteAdapter.save_application: INSERT OR REPLACE by job_id, with
\* data_hora = datetime.now(); the program never saves after it has built
\* its Governor, so rows are those of earlier sessions
SaveApplication ==
    /\ ~opsec_set
    /\ \E j \in JobIds, st \in Statuses :
           candidaturas' = [candidaturas EXCEPT ![j] = Row(st, now)]
    /\ op' = "save_application"
    /\ UNCHANGED <<settings, opsecVars, now, pre, res, bot_state,
                   stop_requested, opsec_set, browser_set, job_filter_set,
                   calls, ghostVars, guiVars,
                   flowVars>>

\* OpSecService(settings): a new OpSecState, with applications_today as given
OpSecConstructed(count) ==
    /\ today' = Date(now)
    /\ applications_today' = count
    /\ consecutive_errors' = 0
    /\ account_age_days' = 0
    /\ is_paused' = FALSE
    /\ pause_until' = None
    /\ pause_origin' = "none"
    /\ recorded_since_pause' = FALSE
    /\ abort_latched' = FALSE

\* BotOrchestrator.initialize, run to completion by a single caller
Initialize ==
    /\ bot_state = "IDLE"
    /\ bot_state' = "STARTING"
    /\ OpSecConstructed(TodayCount(candidaturas, now))
    /\ opsec_set' = TRUE
    /\ browser_set' = TRUE
    /\ \E stored \in BOOLEAN : job_filter_set' = stored
    /\ attempt_unrecorded' = FALSE
    /\ allowed_pending' = FALSE
    /\ op' = "initialize"
    /\ pre' = Snapshot
    /\ res' = Void
    /\ UNCHANGED <<settings, now, candidaturas, stop_requested, calls,
                   attempt_unallowed, guiVars,
                   flowVars>>

\* The limits the orchestrator is run with
OrchSettings ==
    [BaseSettings EXCEPT !.daily_limit = 2, !.pause_after_applications = 1]

OrchSettingsSet ==
    { OrchSettings,
      [OrchSettings EXCEPT !.max_consecutive_errors = 0],
      [OrchSettings EXCEPT !.pause_after_applications = 0] }

\* OpSecState as the dataclass defaults leave it, at the start of the run
OpSecFresh ==
    /\ now = NowStart
    /\ today = Date(NowStart)
    /\ applications_today = 0
    /\ consecutive_errors = 0
    /\ account_age_days = 0
    /\ is_paused = FALSE
    /\ pause_until = None
    /\ op = "init"
    /\ pre = [today |-> Date(NowStart), applications_today |-> 0,
              consecutive_errors |-> 0, account_age_days |-> 0,
              is_paused |-> FALSE, pause_until |-> None, now |-> NowStart,
              pause_origin |-> "none", recorded_since_pause |-> FALSE]
    /\ res = Void
    /\ pause_origin = "none"
    /\ recorded_since_pause = FALSE
    /\ abort_latched = FALSE

InitStore ==
    /\ settings \in OrchSettingsSet
    /\ OpSecFresh
    /\ ProgramIdle

NextStore ==
    \/ SaveApplication
    \/ Initialize
    \/ opsec_set /\ CanApply /\ UNCHANGED programVars
    \/ Tick /\ UNCHANGED programVars

SpecStore == InitStore /\ [][NextStore]_vars

(***************************************************************************)
(* The Governor driven by a caller that calls record_success only for an   *)
(* allowance: after a can_apply that returned allowed=true, once.  The     *)
(* configuration and the account age are those the day started with.       *)
(***************************************************************************)
RestIdle == UNCHANGED <<orchVars, attempt_unrecorded, attempt_unallowed,
                        guiVars, flowVars>>

AllowedCanApply ==
    /\ CanApply
    /\ allowed_pending' = (res'.kind = "return" /\ res'.allowed)
    /\ RestIdle

AllowedRecordSuccess ==
    /\ allowed_pending
    /\ RecordSuccess
    /\ allowed_pending' = FALSE
    /\ RestIdle

\* The configurations of SettingsSet, and two whose daily limit is met
\* before the first interval pause
GovernedSettings ==
    SettingsSet \cup {[BaseSettings EXCEPT !.daily_limit = 1],
                      [BaseSettings EXCEPT !.daily_limit = 2]}

InitGoverned ==
    /\ settings \in GovernedSettings
    /\ account_age_days \in AccountAges
    /\ now = NowStart
    /\ today = Date(NowStart)
    /\ applications_today = 0
    /\ consecutive_errors = 0
    /\ is_paused = FALSE
    /\ pause_until = None
    /\ op = "init"
    /\ pre = [today |-> Date(NowStart), applications_today |-> 0,
              consecutive_errors |-> 0,
              account_age_days |-> account_age_days,
              is_paused |-> FALSE, pause_until |-> None, now |-> NowStart,
              pause_origin |-> "none", recorded_since_pause |-> FALSE]
    /\ res = Void
    /\ pause_origin = "none"
    /\ recorded_since_pause = FALSE
    /\ abort_latched = FALSE
    /\ ProgramIdle

NextGoverned ==
    \/ AllowedCanApply
    \/ AllowedRecordSuccess
    \/ RecordFailure /\ UNCHANGED programVars
    \/ RecordSkip /\ UNCHANGED programVars
    \/ ResetDaily /\ UNCHANGED programVars
    \/ ForcePause /\ UNCHANGED programVars
    \/ Tick /\ UNCHANGED programVars

SpecGoverned == InitGoverned /\ [][NextGoverned]_vars

(***************************************************************************)
(* BotOrchestrator: start(), initialize(), _run_loop() and stop(), each    *)
(* step running from one await to the next.                                *)
(***************************************************************************)
At(c, p) == calls[c].pc = p

Goto(c, p) == calls' = [calls EXCEPT ![c].pc = p]

Return(c) == calls' = [calls EXCEPT ![c] = NoCall]

\* "Limite diário" in reason
HasLimiteDiario(reason) == reason = "daily_limit"

\* "Pausa" in reason: both pause messages begin with it
HasPausa(reason) == reason \in {"pause_active", "interval_pause"}

\* the loop leaving on a pause denial instead of sleeping
LoopTopPauseBreaks(c, st) ==
    IF stop_requested
    THEN /\ bot_state' = "IDLE"
         /\ Return(c)
         /\ op' = "loop_exit"
         /\ UNCHANGED <<opsecVars, settings, now, pre, res, allowed_pending>>
    ELSE /\ CanApply
         /\ allowed_pending' = (res'.kind = "return" /\ res'.allowed)
         /\ IF res'.kind = "raise"
            THEN bot_state' = st /\ Return(c)
            ELSE IF res'.allowed
            THEN bot_state' = st /\ Goto(c, "wait")
            ELSE bot_state' = "IDLE" /\ Return(c)

\* the loop leaving on a consecutive-error denial with _state as it was
LoopTopKeepsState(c, st) ==
    IF stop_requested
    THEN /\ bot_state' = "IDLE"
         /\ Return(c)
         /\ op' = "loop_exit"
         /\ UNCHANGED <<opsecVars, settings, now, pre, res, allowed_pending>>
    ELSE /\ CanApply
         /\ allowed_pending' = (res'.kind = "return" /\ res'.allowed)
         /\ IF res'.kind = "raise"
            THEN bot_state' = st /\ Return(c)
            ELSE IF res'.allowed
            THEN bot_state' = st /\ Goto(c, "wait")
            ELSE IF HasLimiteDiario(res'.reason)
            THEN bot_state' = "IDLE" /\ Return(c)
            ELSE IF HasPausa(res'.reason)
            THEN /\ bot_state' = "PAUSED"
                 /\ calls' = [calls EXCEPT ![c].pc = "pause_sleep",
                                           ![c].wake_at = now + 1]
            ELSE bot_state' = st /\ Return(c)

\* the while loop of _run_loop from its condition to the next await, entered
\* with _state = st
LoopTop(c, st) ==
    IF stop_requested
    THEN /\ bot_state' = "IDLE"
         /\ Return(c)
         /\ op' = "loop_exit"
         /\ UNCHANGED <<opsecVars, settings, now, pre, res, allowed_pending>>
    ELSE /\ CanApply
         /\ allowed_pending' = (res'.kind = "return" /\ res'.allowed)
         /\ IF res'.kind = "raise"
            THEN bot_state' = st /\ Return(c)
            ELSE IF res'.allowed
            THEN bot_state' = st /\ Goto(c, "wait")
            ELSE IF HasLimiteDiario(res'.reason)
            THEN bot_state' = "IDLE" /\ Return(c)
            ELSE IF HasPausa(res'.reason)
            THEN /\ bot_state' = "PAUSED"
                 /\ calls' = [calls EXCEPT ![c].pc = "pause_sleep",
                                           ![c].wake_at = now + 1]
            ELSE bot_state' = "IDLE" /\ Return(c)

\* A job attempt begins: it uses up the allowance of the last can_apply
AttemptBegins ==
    /\ attempt_unrecorded' = TRUE
    /\ attempt_unallowed' = (attempt_unallowed \/ ~allowed_pending)
    /\ allowed_pending' = FALSE

\* start(): the guard, then initialize() when IDLE, else straight to login
Start(c) ==
    /\ At(c, "idle")
    /\ \E jf \in BOOLEAN :
        IF bot_state = "RUNNING"
        THEN UNCHANGED <<bot_state, stop_requested, job_filter_set, calls>>
        ELSE /\ stop_requested' = FALSE
             /\ IF bot_state = "IDLE"
                THEN /\ bot_state' = "STARTING"
                     /\ Goto(c, "init_storage")
                     /\ UNCHANGED job_filter_set
                ELSE /\ job_filter_set' = (job_filter_set \/ jf)
                     /\ IF browser_set
                        THEN /\ Goto(c, "login")
                             /\ UNCHANGED bot_state
                        ELSE /\ bot_state' = "ERROR"
                             /\ UNCHANGED calls
    /\ UNCHANGED <<settings, opsecVars, now, op, pre, res, candidaturas,
                   opsec_set, browser_set, ghostVars, guiVars,
                   flowVars>>

\* initialize(): storage and crypto are up; self._opsec = OpSecService(...)
InitStorage(c) ==
    /\ At(c, "init_storage")
    /\ OpSecConstructed(0)
    /\ opsec_set' = TRUE
    /\ attempt_unrecorded' = FALSE
    /\ allowed_pending' = FALSE
    /\ Goto(c, "init_count")
    /\ op' = "init_storage"
    /\ UNCHANGED <<settings, now, pre, res, candidaturas, bot_state,
                   stop_requested, browser_set, job_filter_set,
                   attempt_unallowed, guiVars,
                   flowVars>>

\* initialize(): applications_today = await get_today_count(); browser built
InitCount(c) ==
    /\ At(c, "init_count")
    /\ applications_today' = TodayCount(candidaturas, now)
    /\ browser_set' = TRUE
    /\ Goto(c, "init_browser")
    /\ op' = "initialize"
    /\ pre' = Snapshot
    /\ res' = Void
    /\ UNCHANGED <<settings, today, consecutive_errors, account_age_days,
                   is_paused, pause_until, pause_origin,
                   recorded_since_pause, abort_latched, now, candidaturas,
                   bot_state, stop_requested, opsec_set, job_filter_set,
                   ghostVars, guiVars,
                   flowVars>>

\* initialize(): the browser has started; the stored job filter is read
InitBrowser(c) ==
    /\ At(c, "init_browser")
    /\ Goto(c, "init_filter")
    /\ UNCHANGED <<settings, opsecVars, now, op, pre, res, candidaturas,
                   bot_state, stop_requested, opsec_set, browser_set,
                   job_filter_set, ghostVars, guiVars,
                   flowVars>>

\* initialize() returns; start() takes its job_filter argument and logs in
InitFilter(c) ==
    /\ At(c, "init_filter")
    /\ \E stored \in BOOLEAN, jf \in BOOLEAN :
           job_filter_set' = (stored \/ jf)
    /\ Goto(c, "login")
    /\ UNCHANGED <<settings, opsecVars, now, op, pre, res, candidaturas,
                   bot_state, stop_requested, opsec_set, browser_set,
                   ghostVars, guiVars,
                   flowVars>>

\* start() after _ensure_logged_in, into _run_loop up to search_jobs
Login(c) ==
    /\ At(c, "login")
    /\ \E ok \in BOOLEAN :
        IF ~ok
        THEN bot_state' = "ERROR" /\ Return(c)
        ELSE /\ bot_state' = "RUNNING"
             /\ IF browser_set /\ opsec_set /\ job_filter_set
                THEN Goto(c, "search")
                ELSE Return(c)
    /\ UNCHANGED <<settings, opsecVars, now, op, pre, res, candidaturas,
                   stop_requested, opsec_set, browser_set, job_filter_set,
                   ghostVars, guiVars,
                   flowVars>>

\* a storage or driver call awaited by start() raises
CallRaises(c) ==
    /\ calls[c].pc \in {"init_storage", "init_count", "init_browser",
                        "init_filter", "login", "search"}
    /\ Return(c)
    /\ UNCHANGED <<settings, opsecVars, now, op, pre, res, candidaturas,
                   bot_state, stop_requested, opsec_set, browser_set,
                   job_filter_set, ghostVars, guiVars,
                   flowVars>>

\* _run_loop: search_jobs and sleep(3) are over, the loop is entered
SearchDone(c) ==
    /\ At(c, "search")
    /\ LoopTop(c, bot_state)
    /\ UNCHANGED <<candidaturas, stop_requested, opsec_set, browser_set,
                   job_filter_set, attempt_unrecorded, attempt_unallowed,
                   guiVars,
                   flowVars>>

\* _run_loop: sleep(60) is over; _state = RUNNING; continue
PauseWake(c) ==
    /\ At(c, "pause_sleep")
    /\ now >= calls[c].wake_at
    /\ LoopTop(c, "RUNNING")
    /\ UNCHANGED <<candidaturas, stop_requested, opsec_set, browser_set,
                   job_filter_set, attempt_unrecorded, attempt_unallowed,
                   guiVars,
                   flowVars>>

\* _run_loop: wait_before_application is over, the job is processed
WaitDone(c) ==
    /\ At(c, "wait")
    /\ Goto(c, "attempt")
    /\ AttemptBegins
    /\ op' = "attempt"
    /\ UNCHANGED <<settings, opsecVars, now, pre, res, candidaturas,
                   bot_state, stop_requested, opsec_set, browser_set,
                   job_filter_set, guiVars,
                   flowVars>>

\* _run_loop: the job processing is over; if _stop_requested: break
AttemptDone(c) ==
    /\ At(c, "attempt")
    /\ LoopTop(c, bot_state)
    /\ UNCHANGED <<candidaturas, stop_requested, opsec_set, browser_set,
                   job_filter_set, attempt_unrecorded, attempt_unallowed,
                   guiVars,
                   flowVars>>

\* stop()
Stop ==
    /\ stop_requested' = TRUE
    /\ bot_state' = "STOPPING"
    /\ UNCHANGED <<settings, opsecVars, now, op, pre, res, candidaturas,
                   opsec_set, browser_set, job_filter_set, calls,
                   ghostVars, guiVars,
                   flowVars>>

\* The table an earlier session of today leaves: k successful rows
StoredTable(k) ==
    [j \in JobIds |-> IF j <= k THEN Row("SUCESSO", NowStart) ELSE NoRow]

\* A configuration with the rows its session starts over
OrchRuns ==
    { <<OrchSettings, k>> : k \in 0..Cardinality(JobIds) }
      \cup { <<[OrchSettings EXCEPT !.max_consecutive_errors = 0], 0>>,
             <<[OrchSettings EXCEPT !.pause_after_applications = 0], 1>> }

InitOrch ==
    /\ \E run \in OrchRuns :
           /\ settings = run[1]
           /\ candidaturas = StoredTable(run[2])
    /\ OpSecFresh
    /\ OrchestratorConstructed
    /\ GuiConstructed
    /\ FlowIdle

\* asyncio.sleep: a minute passes
MinuteTick ==
    /\ (now - NowStart) < MaxMinuteTicks
    /\ now' = now + 1
    /\ UNCHANGED <<settings, opsecVars, op, pre, res, programVars>>

NextOrch ==
    \/ \E c \in CallIds : Start(c)
    \/ \E c \in CallIds : InitStorage(c)
    \/ \E c \in CallIds : InitCount(c)
    \/ \E c \in CallIds : InitBrowser(c)
    \/ \E c \in CallIds : InitFilter(c)
    \/ \E c \in CallIds : Login(c)
    \/ \E c \in CallIds : CallRaises(c)
    \/ \E c \in CallIds : SearchDone(c)
    \/ \E c \in CallIds : PauseWake(c)
    \/ \E c \in CallIds : WaitDone(c)
    \/ \E c \in CallIds : AttemptDone(c)
    \/ Stop
    \/ MinuteTick

SpecOrch == InitOrch /\ [][NextOrch]_vars

(***************************************************************************)
(* The GUI: start_bot_click, stop_bot_click and the bot thread running     *)
(* run_bot_automation (src/src/presentation/gui/app.py).  The counters     *)
(* local to the thread (applied_count, page_number) are not carried: the   *)
(* loop may leave for them at any turn.                                    *)
(***************************************************************************)
Running(t, p) == threads[t].pc = p

Move(t, p, n) == threads' = [threads EXCEPT ![t] = [pc |-> p, jobs_left |-> n]]

govVars == <<settings, opsecVars, now, op, pre, res>>

\* start_bot_click: refused while is_running, or with no keywords or resume
StartBotClick ==
    /\ \E ready \in BOOLEAN :
        IF is_running \/ ~ready
        THEN UNCHANGED <<is_running, threads>>
        ELSE /\ is_running' = TRUE
             /\ \E t \in ThreadIds :
                    /\ Running(t, "none")
                    /\ Move(t, "starting", 0)
    /\ UNCHANGED <<govVars, orchVars, ghostVars, flowVars>>

\* stop_bot_click
StopBotClick ==
    /\ is_running' = FALSE
    /\ UNCHANGED <<threads, govVars, orchVars, ghostVars, flowVars>>

\* run_bot_automation up to the job loop: browser, login, search_jobs
GuiStarted(t) ==
    /\ Running(t, "starting")
    /\ \E ok \in BOOLEAN :
           IF ok THEN Move(t, "page", 0) ELSE Move(t, "closing", 0)
    /\ UNCHANGED <<is_running, govVars, orchVars, ghostVars, flowVars>>

\* the while loop: its condition, the listings of the page, the new jobs
GuiPage(t) ==
    /\ Running(t, "page")
    /\ \E more \in BOOLEAN, n \in 0..MaxJobs :
           IF is_running /\ more /\ n > 0
           THEN Move(t, "job", n)
           ELSE Move(t, "closing", 0)
    /\ UNCHANGED <<is_running, govVars, orchVars, ghostVars, flowVars>>

\* the for loop: the checks at the start of a job, then click_job_card and
\* apply_to_job; after the last job, the next page of results
GuiJob(t) ==
    /\ Running(t, "job")
    /\ \E more \in BOOLEAN :
           IF threads[t].jobs_left = 0
           THEN /\ IF is_running /\ more
                   THEN Move(t, "page", 0)
                   ELSE Move(t, "closing", 0)
                /\ UNCHANGED ghostVars
           ELSE IF ~is_running \/ ~more
           THEN /\ Move(t, "page", 0)
                /\ UNCHANGED ghostVars
           ELSE /\ Move(t, "applying", threads[t].jobs_left)
                /\ AttemptBegins
    /\ UNCHANGED <<is_running, govVars, orchVars, flowVars>>

\* apply_to_job has returned its result; sleep(3)
GuiApplied(t) ==
    /\ Running(t, "applying")
    /\ Move(t, "job", threads[t].jobs_left - 1)
    /\ UNCHANGED <<is_running, govVars, orchVars, ghostVars, flowVars>>

\* a driver call raises: the except block of run_bot_automation
GuiRaises(t) ==
    /\ threads[t].pc \in {"starting", "page", "job", "applying"}
    /\ Move(t, "closing", 0)
    /\ UNCHANGED <<is_running, govVars, orchVars, ghostVars, flowVars>>

\* browser.stop() is over; run_bot_in_thread sets is_running = False
GuiClosed(t) ==
    /\ Running(t, "closing")
    /\ threads' = [threads EXCEPT ![t] = NoThread]
    /\ is_running' = FALSE
    /\ UNCHANGED <<govVars, orchVars, ghostVars, flowVars>>

InitGui ==
    /\ settings = BaseSettings
    /\ OpSecFresh
    /\ ProgramIdle

NextGui ==
    \/ StartBotClick
    \/ StopBotClick
    \/ \E t \in ThreadIds : GuiStarted(t)
    \/ \E t \in ThreadIds : GuiPage(t)
    \/ \E t \in ThreadIds : GuiJob(t)
    \/ \E t \in ThreadIds : GuiApplied(t)
    \/ \E t \in ThreadIds : GuiRaises(t)
    \/ \E t \in ThreadIds : GuiClosed(t)

SpecGui == InitGui /\ [][NextGui]_vars

(***************************************************************************)
(* ApplyToJobUseCase.execute: one job application, form page by form page, *)
(* while stop() may be called (src/src/application/use_cases/              *)
(* apply_to_job.py).  One step per iteration of the page loop.             *)
(***************************************************************************)
MAX_FORM_PAGES == 10

MaxFields == 1            \* the fields parse_form_fields returns for a page
TokenCounts == {1, 2}     \* response.usage.total_tokens of one AI call
FieldTypes == {"file", "select", "text"}
OracleFailures == {"raise", "malformed"}
Controls == {"submit", "review", "next"}

\* job_already_applied(job_id): a row of any status is stored under the id
JobAlreadyApplied(j) == candidaturas[j].status # "NONE"

\* return ApplyResult(result=..., message=..., tokens_used=...)
FlowReturn(f, result, message, tokens) ==
    flow' = [f EXCEPT !.pc = "returned", !.result = result,
                      !.message = message, !.tokens_used = tokens]

\* execute() up to the page loop: navigate, parse the listing, Easy Apply.
\* The first two returns leave tokens_used at its default of 0.
ExecuteBegin ==
    /\ flow.pc = "idle"
    /\ \E outcome \in {"raise", "no_job", "no_button", "form"} :
        CASE outcome = "raise" ->
                 FlowReturn(flow, "FAILED", "exception", flow.total_tokens)
          [] outcome = "no_job" -> FlowReturn(flow, "FAILED", "parse", 0)
          [] outcome = "no_button" ->
                 FlowReturn(flow, "SKIPPED", "no_easy_apply", 0)
          [] outcome = "form" ->
                 flow' = [flow EXCEPT !.pc = "form", !.apply_clicked = TRUE,
                                      !.begun_stopped = stop_requested]
    /\ UNCHANGED <<govVars, orchVars, ghostVars, guiVars, page_after_stop,
                   apply, fill, form, db>>

\* fields = await self.job_parser.parse_form_fields()
ParseFields ==
    /\ flow.pc = "form"
    /\ \/ FlowReturn(flow, "FAILED", "exception", flow.total_tokens)
       \/ \E n \in 0..MaxFields :
            flow' = [flow EXCEPT !.pc = "fields", !.fields_parsed = TRUE,
                                 !.fields_left = n, !.tried = <<>>,
                                 !.clicked = <<>>, !.last_oracle = "none"]
    /\ UNCHANGED <<govVars, orchVars, ghostVars, guiVars, page_after_stop,
                   apply, fill, form, db>>

\* The exception handler of execute(): FAILED with str(e) and the tokens
\* added to total_tokens so far
FlowRaises(f) == FlowReturn(f, "FAILED", "exception", f.total_tokens)

\* The field is done: on to the next one of the page
FieldDone(f) == flow' = [f EXCEPT !.fields_left = f.fields_left - 1]

\* total_tokens += tokens, after an AI call that used t tokens returned
AddTokens(f, t) ==
    [f EXCEPT !.total_tokens = f.total_tokens + t, !.spent = f.spent + t]

\* One field of the page: a file is uploaded, a select or radio is answered
\* by get_selected_option, a text or textarea by answer_text_question.
\* The oracle call raises, or completes with t tokens; a completed select
\* call whose "selected_option" is no string raises in get_selected_option.
AnswerField ==
    /\ flow.pc = "fields"
    /\ flow.fields_left > 0
    /\ \E type \in FieldTypes :
        CASE type = "file" ->
                 \/ FlowRaises([flow EXCEPT !.last_oracle = "none"])
                 \/ FieldDone([flow EXCEPT !.last_oracle = "none"])
          [] type = "select" ->
                 \/ FlowRaises([flow EXCEPT !.last_oracle = "raise"])
                 \/ \E t \in TokenCounts :
                      \/ FlowRaises([flow EXCEPT !.last_oracle = "malformed",
                                                 !.spent = flow.spent + t])
                      \/ FieldDone(AddTokens(
                             [flow EXCEPT !.last_oracle = "ok"], t))
          [] type = "text" ->
                 \/ FlowRaises([flow EXCEPT !.last_oracle = "raise"])
                 \/ \E t \in TokenCounts :
                      FieldDone(AddTokens(
                          [flow EXCEPT !.last_oracle = "ok"], t))
    /\ UNCHANGED <<govVars, orchVars, ghostVars, guiVars, page_after_stop,
                   apply, fill, form, db>>

\* The page loop with one page more than MAX_FORM_PAGES
NextFormPageLate(f) ==
    /\ IF f.page_num < MAX_FORM_PAGES
       THEN flow' = [f EXCEPT !.pc = "form", !.page_num = f.page_num + 1]
       ELSE FlowReturn([f EXCEPT !.page_num = f.page_num + 1],
                       "FAILED", "not_completed", f.total_tokens)
    /\ page_after_stop' =
         (page_after_stop \/ (stop_requested /\ f.page_num < MAX_FORM_PAGES))

\* The page loop goes on to page_num + 1, or ends at MAX_FORM_PAGES
NextFormPage(f) ==
    /\ IF f.page_num + 1 < MAX_FORM_PAGES
       THEN flow' = [f EXCEPT !.pc = "form", !.page_num = f.page_num + 1]
       ELSE FlowReturn([f EXCEPT !.page_num = f.page_num + 1],
                       "FAILED", "not_completed", f.total_tokens)
    /\ page_after_stop' =
         (page_after_stop
            \/ (stop_requested /\ f.page_num + 1 < MAX_FORM_PAGES))

\* _close_modal() left out
CloseModalSkipped(f) == f

\* await self._close_modal()
CloseModal(f) == [f EXCEPT !.modal_closed = TRUE]

\* The controls the page was asked for, in order, and those clicked
Pressed(f, tried, clicked) ==
    [f EXCEPT !.tried = tried, !.clicked = clicked, !.last_oracle = "none"]

\* The end of one iteration of the page loop, for what _click_submit, 
\* _click_review, the second _click_submit and _click_next return
Navigate(submit, review, submit2, next) ==
    IF submit
    THEN /\ FlowReturn(CloseModal(Pressed(flow, <<"submit">>, <<"submit">>)),
                       "SUCCESS", "submitted", flow.total_tokens)
         /\ UNCHANGED page_after_stop
    ELSE IF review
    THEN IF submit2
         THEN /\ FlowReturn(
                   CloseModal(Pressed(flow, <<"submit", "review", "submit">>,
                                      <<"review", "submit">>)),
                   "SUCCESS", "submitted", flow.total_tokens)
              /\ UNCHANGED page_after_stop
         ELSE NextFormPage(Pressed(flow, <<"submit", "review", "submit">>,
                                   <<"review">>))
    ELSE IF next
    THEN NextFormPage(Pressed(flow, <<"submit", "review", "next">>,
                              <<"next">>))
    ELSE /\ FlowReturn(Pressed(flow, <<"submit", "review", "next">>, <<>>),
                       "FAILED", "not_completed", flow.total_tokens)
         /\ UNCHANGED page_after_stop

\* one iteration of the page loop once its fields are answered: Submit, else
\* Review and Submit, else Next, else none of them
FormPage ==
    /\ flow.pc = "fields"
    /\ flow.fields_left = 0
    /\ \E submit, review, submit2, next \in BOOLEAN :
         Navigate(submit, review, submit2, next)
    /\ UNCHANGED <<govVars, orchVars, ghostVars, guiVars, apply, fill, form, db>>

(***************************************************************************)
(* CamoufoxAdapter.apply_to_job                                            *)
(* (src/src/infrastructure/browser/camoufox_adapter.py), the flow the GUI  *)
(* runs for each job card.                                                 *)
(***************************************************************************)
max_steps == 15

PrimaryButton == {"absent", "blocked", "enabled"}

\* What the modal shows at one step: a query that raises, the save modal
\* with its discard button, a success text, an enabled Submit, Review or
\* Next button, the modal's primary button
ModalShows ==
    [raises : BOOLEAN, discard : BOOLEAN, indicator : BOOLEAN,
     submit : BOOLEAN, review : BOOLEAN, next : BOOLEAN,
     primary : PrimaryButton]

\* return result
ApplyReturn(a) == apply' = [a EXCEPT !.pc = "returned"]

\* The handler lets the exception out of apply_to_job
ApplyRaisesPropagates(a) == apply' = [a EXCEPT !.pc = "raised"]

\* except Exception as e: the message becomes 'Erro: ...', the Dismiss
\* button is looked for and clicked with its own errors swallowed, and the
\* result is returned with the success flag as it stands
ApplyRaises(a) ==
    ApplyReturn([a EXCEPT !.message = "error", !.caught = TRUE,
                          !.dismissed = TRUE])

\* The modal is closed before a return: the close button is looked for and
\* clicked if there is one, and that click can raise
ApplyClose(a, close_raises) ==
    IF close_raises THEN ApplyRaises(a)
    ELSE ApplyReturn([a EXCEPT !.dismissed = TRUE])

\* apply_to_job up to the step loop: the already-applied indicator, the
\* Easy Apply button and the click on it
ApplyBegin ==
    /\ apply.pc = "idle"
    /\ \E outcome \in {"raise", "indicator", "no_button", "disabled",
                       "form"} :
        CASE outcome = "raise" -> ApplyRaises(apply)
          [] outcome \in {"indicator", "disabled"} ->
                 ApplyReturn([apply EXCEPT !.message = "already_applied"])
          [] outcome = "no_button" ->
                 ApplyReturn([apply EXCEPT !.message = "no_easy_apply"])
          [] outcome = "form" -> apply' = [apply EXCEPT !.pc = "steps"]
    /\ UNCHANGED <<govVars, orchVars, ghostVars, guiVars, flow,
                   page_after_stop, fill, form, db>>

\* The loop goes on to step + 1, or ends at max_steps: with no success and
\* no message the result is the timeout, and the modal is closed
NextStep(a, close_raises) ==
    IF a.step + 1 < max_steps
    THEN apply' = [a EXCEPT !.step = a.step + 1]
    ELSE ApplyClose([a EXCEPT !.step = a.step + 1, !.message = "timeout"],
                    close_raises)

\* result['success'] = True with its message, then the close button
Succeeds(a, close_raises) ==
    ApplyClose([a EXCEPT !.success = TRUE, !.message = "sent"], close_raises)

\* One iteration of the step loop, for what the modal shows; the primary
\* button is absent, or disabled or a discard button, or enabled
Step(ui, close_raises) ==
    LET did(o) == [apply EXCEPT !.outcome = o] IN
    IF ui.raises THEN ApplyRaises(did("raise"))
    ELSE IF ui.discard THEN NextStep(did("discard"), close_raises)
    ELSE IF ui.indicator THEN Succeeds(did("indicator"), close_raises)
    ELSE IF ui.submit
    THEN Succeeds([did("submit") EXCEPT !.submit_clicked = TRUE],
                  close_raises)
    ELSE IF ui.review THEN NextStep(did("review"), close_raises)
    ELSE IF ui.next THEN NextStep(did("next"), close_raises)
    ELSE IF apply.step > 5 /\ ui.primary = "enabled"
    THEN NextStep(did("primary"), close_raises)
    ELSE IF apply.step > 10 /\ ui.primary = "absent"
    THEN ApplyClose([did("nothing") EXCEPT !.message = "needs_info"],
                    close_raises)
    ELSE NextStep(did("nothing"), close_raises)

ApplyStep ==
    /\ apply.pc = "steps"
    /\ \E ui \in ModalShows, close_raises \in BOOLEAN :
         Step(ui, close_raises)
    /\ UNCHANGED <<govVars, orchVars, ghostVars, guiVars, flow,
                   page_after_stop, fill, form, db>>

\* The orchestrator while a job is being processed: RUNNING, one start()
\* call inside _run_loop
\* OpSecState after initialize() has read today's count from the store
OpSecInitialized(count) ==
    /\ now = NowStart
    /\ today = Date(NowStart)
    /\ applications_today = count
    /\ consecutive_errors = 0
    /\ account_age_days = 0
    /\ is_paused = FALSE
    /\ pause_until = None
    /\ op = "init"
    /\ pre = [today |-> Date(NowStart), applications_today |-> count,
              consecutive_errors |-> 0, account_age_days |-> 0,
              is_paused |-> FALSE, pause_until |-> None, now |-> NowStart,
              pause_origin |-> "none", recorded_since_pause |-> FALSE]
    /\ res = Void
    /\ pause_origin = "none"
    /\ recorded_since_pause = FALSE
    /\ abort_latched = FALSE

InitFlow ==
    /\ settings = BaseSettings
    /\ \E k \in 0..1 :
         /\ candidaturas = StoredTable(k)
         /\ OpSecInitialized(TodayCount(StoredTable(k), NowStart))
    /\ bot_state = "RUNNING"
    /\ stop_requested = FALSE
    /\ opsec_set = TRUE
    /\ browser_set = TRUE
    /\ job_filter_set = TRUE
    /\ calls = [c \in CallIds |->
                  IF c = 1 THEN [pc |-> "attempt", wake_at |-> None]
                  ELSE NoCall]
    /\ attempt_unrecorded = TRUE
    /\ allowed_pending = FALSE
    /\ attempt_unallowed = FALSE
    /\ GuiConstructed
    /\ page_after_stop = FALSE
    /\ fill = NoFill
    /\ form = NoForm
    /\ db = NoDb
    /\ \/ flow = NoFlow /\ apply = [NoApply EXCEPT !.pc = "off"]
       \/ flow = [NoFlow EXCEPT !.pc = "off"] /\ apply = NoApply

NextFlow ==
    \/ ExecuteBegin
    \/ ParseFields
    \/ AnswerField
    \/ FormPage
    \/ ApplyBegin
    \/ ApplyStep
    \/ Stop

SpecFlow == InitFlow /\ [][NextFlow]_vars

\* The steps of the flow itself: every await of execute() and of
\* apply_to_job() returns or raises, so the coroutine is always resumed
FlowSteps ==
    \/ ExecuteBegin
    \/ ParseFields
    \/ AnswerField
    \/ FormPage
    \/ ApplyBegin
    \/ ApplyStep

SpecFlowFair == InitFlow /\ [][NextFlow]_vars /\ WF_vars(FlowSteps)

(***************************************************************************)
(* Filling one field: OpenAIAdapter.get_selected_option with               *)
(* ApplyToJobUseCase (src/src/infrastructure/ai/openai_adapter.py) and     *)
(* AIFormFiller (src/src/infrastructure/ai/form_filler.py).  A text is a   *)
(* sequence of characters.                                                 *)
(***************************************************************************)
Chars == {"a", "A", "b"}  \* the characters of options and answers
StripChars == {" "}       \* the characters str.strip() removes
MaxStrLen == 2            \* the longest option and the longest answer
MaxOptions == 2           \* the most options of one field

Texts(chars, shortest) ==
    UNION { [1..k -> chars] : k \in shortest..MaxStrLen }

OptionLists == UNION { [1..n -> Texts(Chars, 1)] : n \in 1..MaxOptions }

\* What the oracle call gives: a text; for the JSON call of
\* get_selected_option also an object without "selected_option" or with a
\* value that is no string; or the call raises
Oracles ==
    { [kind |-> "text", text |-> t] : t \in Texts(Chars \cup StripChars, 0) }
      \cup { [kind |-> k, text |-> <<>>] :
               k \in {"no_key", "non_string", "raise"} }

\* The keyword sets of _apply_smart_defaults a label can match
LabelKeywords == {"name", "email", "phone", "salary"}

Candidates == [name : {<<>>, <<"A">>}, email : {<<>>, <<"a", "b">>},
               phone : {<<>>, <<"b">>}]

\* str.lower()
LowerChar(c) == IF c = "A" THEN "a" ELSE c
Lower(s) == [i \in 1..Len(s) |-> LowerChar(s[i])]

\* x in y
Contains(x, y) ==
    \E i \in 0..(Len(y) - Len(x)) : SubSeq(y, i + 1, i + Len(x)) = x

\* str.strip()
RECURSIVE Strip(_)
Strip(s) ==
    IF s # <<>> /\ Head(s) \in StripChars THEN Strip(Tail(s))
    ELSE IF s # <<>> /\ s[Len(s)] \in StripChars
    THEN Strip(SubSeq(s, 1, Len(s) - 1))
    ELSE s

\* opt.lower() == selected.lower()
Exact(opt, chosen) == Lower(opt) = Lower(chosen)

\* chosen.lower() in opt.lower()
ChosenInOption(opt, chosen) == Contains(Lower(chosen), Lower(opt))

\* selected.lower() in opt.lower() or opt.lower() in selected.lower()
Related(opt, chosen) ==
    ChosenInOption(opt, chosen) \/ Contains(Lower(opt), Lower(chosen))

\* The first of the options at the given places, if any
FirstOf(options, hits) ==
    IF hits = {} THEN Unset
    ELSE Written(options[CHOOSE i \in hits : \A j \in hits : i <= j])

\* The places of the options equal to the answer, related to it, and
\* equal to it or holding it
ExactHits(options, chosen) ==
    { i \in 1..Len(options) : Exact(options[i], chosen) }

RelatedHits(options, chosen) ==
    { i \in 1..Len(options) : Related(options[i], chosen) }

HoldingHits(options, chosen) ==
    { i \in 1..Len(options) :
        Exact(options[i], chosen) \/ ChosenInOption(options[i], chosen) }

\* OpenAIAdapter.get_selected_option, and the _fill_select_field of
\* ApplyToJobUseCase that selects what it returns
GetSelectedOption(options, oracle) ==
    LET exact == ExactHits(options, oracle.text)
        related == RelatedHits(options, oracle.text)
    IN IF oracle.kind \in {"raise", "non_string"} THEN Unset
       ELSE IF oracle.kind = "text" /\ exact # {}
       THEN FirstOf(options, exact)
       ELSE IF oracle.kind = "text" /\ related # {}
       THEN FirstOf(options, related)
       ELSE Written(options[1])

\* openai.complete(prompt) with a plain string: the text, "" on any error
Complete(oracle) == IF oracle.kind = "text" THEN oracle.text ELSE <<>>

\* The loop of AIFormFiller._fill_select_field from option i on
RECURSIVE BestMatch(_, _, _, _)
BestMatch(options, chosen, i, best) ==
    IF i > Len(options) THEN best
    ELSE IF Exact(options[i], chosen) THEN Written(options[i])
    ELSE IF Related(options[i], chosen)
    THEN BestMatch(options, chosen, i + 1, Written(options[i]))
    ELSE BestMatch(options, chosen, i + 1, best)

\* AIFormFiller._fill_select_field
FillSelectField(options, oracle) ==
    LET response == Complete(oracle)
        best == BestMatch(options, Strip(response), 1, Unset)
    IN IF response = <<>> THEN Unset
       ELSE IF best.set /\ best.value # <<>> THEN best
       ELSE Written(options[1])

\* AIFormFiller._fill_dropdown_field and _fill_radio_field: the first
\* option equal to the answer or holding it, else the first option
FillRadioField(options, oracle) ==
    LET response == Complete(oracle)
        holding == HoldingHits(options, Strip(response))
    IN IF response = <<>> THEN Unset
       ELSE IF holding # {} THEN FirstOf(options, holding)
       ELSE Written(options[1])

\* The answers _apply_smart_defaults replaces for a salary field
NegativePlaceholders ==
    { <<"n", "/", "a">>, <<"n", "a">>, <<"n", "o", "n", "e">> }

ACombinar == <<"A combinar">>

\* AIFormFiller._apply_smart_defaults, for the keyword sets the label
\* matches
ApplySmartDefaults(label, candidate, ai_answer) ==
    IF "name" \in label /\ candidate.name # <<>> THEN candidate.name
    ELSE IF "email" \in label /\ candidate.email # <<>> THEN candidate.email
    ELSE IF "phone" \in label /\ candidate.phone # <<>> THEN candidate.phone
    ELSE IF /\ "salary" \in label
            /\ \/ Len(ai_answer) < 3
               \/ Lower(ai_answer) \in NegativePlaceholders
    THEN ACombinar
    ELSE ai_answer

\* AIFormFiller._fill_text_field
FillTextField(label, candidate, oracle) ==
    LET response == Complete(oracle) IN
    IF response = <<>> THEN Unset
    ELSE Written(ApplySmartDefaults(label, candidate, Strip(response)))

\* The text branch of ApplyToJobUseCase.execute: response.content is typed
\* into the field as it is; a call that raises ends the attempt
ExecuteTextField(oracle) ==
    IF oracle.kind = "text" THEN Written(oracle.text) ELSE Unset

\* One fill of the field by one of the code paths
Filled(kind, path, written) ==
    /\ fill.pc = "ready"
    /\ fill.kind = kind
    /\ fill' = [fill EXCEPT !.pc = "done", !.path = path,
                            !.written = written]
    /\ UNCHANGED <<govVars, orchVars, ghostVars, guiVars, flow,
                   page_after_stop, apply, form, db>>

\* The plain-text call of AIFormFiller knows a text or an error only
PlainOracle == fill.oracle.kind \in {"text", "raise"}

InitFill ==
    /\ settings = BaseSettings
    /\ OpSecFresh
    /\ candidaturas = EmptyTable
    /\ OrchestratorConstructed
    /\ GuiConstructed
    /\ flow = NoFlow
    /\ page_after_stop = FALSE
    /\ apply = NoApply
    /\ form = NoForm
    /\ db = NoDb
    /\ \/ \E options \in OptionLists, oracle \in Oracles :
            fill = [NoFill EXCEPT !.pc = "ready", !.kind = "choice",
                                  !.options = options, !.oracle = oracle]
       \/ \E label \in SUBSET LabelKeywords, candidate \in Candidates,
             oracle \in Oracles :
            /\ oracle.kind \in {"text", "raise"}
            /\ fill = [NoFill EXCEPT !.pc = "ready", !.kind = "text",
                                     !.label = label, !.oracle = oracle,
                                     !.candidate = candidate]

NextFill ==
    \/ Filled("choice", "get_selected_option",
              GetSelectedOption(fill.options, fill.oracle))
    \/ PlainOracle /\ Filled("choice", "select",
                             FillSelectField(fill.options, fill.oracle))
    \/ PlainOracle /\ Filled("choice", "dropdown",
                             FillRadioField(fill.options, fill.oracle))
    \/ PlainOracle /\ Filled("choice", "radio",
                             FillRadioField(fill.options, fill.oracle))
    \/ Filled("text", "fill_text_field",
              FillTextField(fill.label, fill.candidate, fill.oracle))
    \/ Filled("text", "execute",  ExecuteTextField(fill.oracle))

SpecFill == InitFill /\ [][NextFill]_vars

(***************************************************************************)
(* Field extraction: JobParser.parse_form_fields                           *)
(* (src/src/infrastructure/parsers/job_parser.py), which execute() reads   *)
(* each form page with, and AIFormFiller.detect_form_fields                *)
(* (src/src/infrastructure/ai/form_filler.py).  A page is the sequence of  *)
(* its candidate elements in document order; an element has a kind, a      *)
(* current value that is empty or not, a value attribute that is empty or  *)
(* not, and probing it raises or not.  A radio element stands for one      *)
(* radio group.  Extraction returns the indexes of the elements it makes   *)
(* fields of, in the order of the returned list.                           *)
(***************************************************************************)
MaxElements == 2          \* the candidate elements of a page

TextKinds == {"text", "textarea"}

ElementKinds == TextKinds \cup {"select", "radio"}

Elements == [kind : ElementKinds, value : BOOLEAN, value_attr : BOOLEAN,
             raises : BOOLEAN]

Pages == UNION {[1..n -> Elements] : n \in 1..MaxElements}

\* The elements of one kind, in document order (query_selector_all)
OfKind(elements, kind) ==
    SelectSeq([i \in 1..Len(elements) |-> i],
              LAMBDA i : elements[i].kind = kind)

\* _parse_text_input, _parse_textarea, _parse_select: the field, or None
\* when probing the element raises; current_value is read and kept
Parsed(elements, kind) ==
    SelectSeq(OfKind(elements, kind), LAMBDA i : ~elements[i].raises)

\* _find_radio_groups: one try around the probing of every radio input
FindRadioGroups(elements) ==
    IF \E i \in 1..Len(elements) :
           elements[i].kind = "radio" /\ elements[i].raises
    THEN <<>>
    ELSE OfKind(elements, "radio")

\* JobParser.parse_form_fields
ParseFormFields(elements) ==
    Parsed(elements, "text") \o Parsed(elements, "textarea")
        \o Parsed(elements, "select") \o FindRadioGroups(elements)

\* What detect_form_fields reads as the value: the value attribute of a
\* text input, input_value() of a textarea
DetectedValue(e) == IF e.kind = "text" THEN e.value_attr ELSE e.value

\* detect_form_fields: one try per element, filled text inputs skipped
Detected(elements, kind) ==
    SelectSeq(OfKind(elements, kind),
              LAMBDA i : /\ ~elements[i].raises
                         /\ kind \in TextKinds => ~DetectedValue(elements[i]))

\* AIFormFiller.detect_form_fields
DetectFormFields(elements) ==
    Detected(elements, "text") \o Detected(elements, "textarea")
        \o Detected(elements, "select") \o Detected(elements, "radio")

\* fields = await self.job_parser.parse_form_fields()
ParsePage ==
    /\ form.pc = "page"
    /\ form' = [form EXCEPT !.pc = "fields", !.extractor = "job_parser",
                            !.fields = ParseFormFields(form.elements)]
    /\ UNCHANGED <<govVars, orchVars, ghostVars, guiVars, flow,
                   page_after_stop, apply, fill, db>>

\* fields = await self.detect_form_fields()
DetectPage ==
    /\ form.pc = "page"
    /\ form' = [form EXCEPT !.pc = "fields", !.extractor = "form_filler",
                            !.fields = DetectFormFields(form.elements)]
    /\ UNCHANGED <<govVars, orchVars, ghostVars, guiVars, flow,
                   page_after_stop, apply, fill, db>>

\* _fill_text_field of either flow: element.fill("") and the answer typed
Overwrites(i) ==
    IF form.elements[i].kind \in TextKinds
    THEN form.overwritten \cup {i}
    ELSE form.overwritten

\* One turn of the loop over the fields: the oracle answers or fails.  In
\* execute() a failure leaves the loop, in fill_all_fields the field is
\* counted as skipped and the loop goes on.
FillNextField ==
    /\ form.pc = "fields"
    /\ form.next <= Len(form.fields)
    /\ \E answered \in BOOLEAN :
          form' = IF answered
                  THEN [form EXCEPT !.next = form.next + 1,
                           !.overwritten = Overwrites(form.fields[form.next])]
                  ELSE IF form.extractor = "job_parser"
                       THEN [form EXCEPT !.pc = "raised"]
                       ELSE [form EXCEPT !.next = form.next + 1]
    /\ UNCHANGED <<govVars, orchVars, ghostVars, guiVars, flow,
                   page_after_stop, apply, fill, db>>

\* The loop over the fields is over
FieldsDone ==
    /\ form.pc = "fields"
    /\ form.next > Len(form.fields)
    /\ form' = [form EXCEPT !.pc = "done"]
    /\ UNCHANGED <<govVars, orchVars, ghostVars, guiVars, flow,
                   page_after_stop, apply, fill, db>>

InitExtract ==
    /\ settings = BaseSettings
    /\ OpSecFresh
    /\ candidaturas = EmptyTable
    /\ OrchestratorConstructed
    /\ GuiConstructed
    /\ flow = NoFlow
    /\ page_after_stop = FALSE
    /\ apply = NoApply
    /\ fill = NoFill
    /\ db = NoDb
    /\ \E elements \in Pages :
          form = [NoForm EXCEPT !.pc = "page", !.elements = elements]

NextExtract ==
    \/ ParsePage
    \/ DetectPage
    \/ FillNextField
    \/ FieldsDone

SpecExtract == InitExtract /\ [][NextExtract]_vars

(***************************************************************************)
(* The candidaturas table column by column: SQLiteAdapter.save_application *)
(* and get_application (src/src/infrastructure/storage/sqlite_adapter.py)  *)
(* over the schema of migrations.py, with the conversions of an            *)
(* Application to its row and back                                         *)
(* (src/src/domain/entities/application.py).  A datetime is a minute, its  *)
(* microseconds and its zone; its ISO text is the sequence of the parts    *)
(* isoformat() writes, the microseconds only when they are not zero and    *)
(* the offset only for an aware datetime.                                  *)
(***************************************************************************)
MaxSaves == 2             \* the save_application calls of a run

\* class ApplicationStatus(Enum): the members and their values
ApplicationStatus ==
    [SUCESSO |-> "SUCESSO", FALHA |-> "FALHA", PULADO |-> "PULADO",
     PENDING |-> "PENDING"]

Members == DOMAIN ApplicationStatus

\* status TEXT CHECK(status IN (...))
StatusCheck == {"SUCESSO", "FALHA", "PULADO", "PENDING"}

\* ApplicationStatus(value): the member that has the value
StatusOfValue(value) == CHOOSE m \in Members : ApplicationStatus[m] = value

DateTimes == [minute : {NowStart}, microsecond : {0, 5},
              tzinfo : {"naive", "utc"}]

Part(sep, n) == [sep |-> sep, n |-> n]

\* datetime.isoformat() with microseconds cut off, as timespec="seconds"
IsoFormatSeconds(d) ==
    <<Part("T", d.minute)>>
        \o (IF d.tzinfo = "utc" THEN <<Part("+", 0)>> ELSE <<>>)

\* datetime.isoformat()
IsoFormat(d) ==
    <<Part("T", d.minute)>>
        \o (IF d.microsecond # 0 THEN <<Part(".", d.microsecond)>> ELSE <<>>)
        \o (IF d.tzinfo = "utc" THEN <<Part("+", 0)>> ELSE <<>>)

HasPart(text, sep) == \E k \in 1..Len(text) : text[k].sep = sep

PartOf(text, sep) == text[CHOOSE k \in 1..Len(text) : text[k].sep = sep].n

\* datetime.fromisoformat(text)
FromIsoFormat(text) ==
    [minute |-> PartOf(text, "T"),
     microsecond |-> IF HasPart(text, ".") THEN PartOf(text, ".") ELSE 0,
     tzinfo |-> IF HasPart(text, "+") THEN "utc" ELSE "naive"]

\* The Application objects a caller builds (id is None until read back)
Applications ==
    [id : {None}, job_id : JobIds, empresa : {"Acme"},
     titulo : {"Dev"}, localizacao : {"Remote"}, status : Members,
     data_hora : DateTimes, motivo_log : {"", "ok"}, tokens_ia : {7}]

\* The VALUES tuple of save_application, under the id SQLite gives the row
RowOf(app, id) ==
    [id |-> id, job_id |-> app.job_id, empresa |-> app.empresa,
     titulo |-> app.titulo, localizacao |-> app.localizacao,
     data_hora |-> IsoFormat(app.data_hora),
     status |-> ApplicationStatus[app.status],
     motivo_log |-> app.motivo_log, tokens_ia |-> app.tokens_ia]

\* Application.from_dict(dict(row))
FromDict(data) ==
    [id |-> data.id, job_id |-> data.job_id, empresa |-> data.empresa,
     titulo |-> data.titulo, localizacao |-> data.localizacao,
     data_hora |-> FromIsoFormat(data.data_hora),
     status |-> StatusOfValue(data.status),
     motivo_log |-> data.motivo_log, tokens_ia |-> data.tokens_ia]

\* INSERT with no conflict clause that the UNIQUE constraint does not stop
InsertPlain(rows, row) == rows \cup {row}

\* INSERT OR REPLACE: the rows the UNIQUE(job_id) constraint conflicts with
\* are deleted, then the row is inserted
InsertOrReplace(rows, row) ==
    {r \in rows : r.job_id # row.job_id} \cup {row}

\* id INTEGER PRIMARY KEY AUTOINCREMENT: one more than every id ever used
NextRowId == db.seq + 1

\* SQLiteAdapter.save_application
SaveApplicationRow ==
    /\ db.seq < MaxSaves
    /\ \E app \in Applications :
          LET row == RowOf(app, NextRowId)
          IN  /\ row.status \in StatusCheck
              /\ db' = [db EXCEPT !.rows = InsertOrReplace(db.rows, row),
                                  !.seq = NextRowId,
                                  !.lastrowid = NextRowId,
                                  !.saved[app.job_id] = app,
                                  !.loaded = NoDb.loaded]
    /\ UNCHANGED <<govVars, orchVars, ghostVars, guiVars, flow,
                   page_after_stop, apply, fill, form>>

\* SQLiteAdapter.get_application: fetchone() of the rows of the job_id
GetApplication ==
    /\ ~db.loaded.read
    /\ \E job_id \in JobIds :
          LET found == {r \in db.rows : r.job_id = job_id}
          IN  \/ /\ found = {}
                 /\ db' = [db EXCEPT !.loaded = [read |-> TRUE,
                                                 job_id |-> job_id,
                                                 found |-> NoApplication]]
              \/ \E row \in found :
                    db' = [db EXCEPT !.loaded = [read |-> TRUE,
                                                 job_id |-> job_id,
                                                 found |-> FromDict(row)]]
    /\ UNCHANGED <<govVars, orchVars, ghostVars, guiVars, flow,
                   page_after_stop, apply, fill, form>>

InitDb ==
    /\ settings = BaseSettings
    /\ OpSecFresh
    /\ candidaturas = EmptyTable
    /\ OrchestratorConstructed
    /\ GuiConstructed
    /\ flow = NoFlow
    /\ page_after_stop = FALSE
    /\ apply = NoApply
    /\ fill = NoFill
    /\ form = NoForm
    /\ db = NoDb

NextDb ==
    \/ SaveApplicationRow
    \/ GetApplication

SpecDb == InitDb /\ [][NextDb]_vars

(***************************************************************************)
(* What a can_apply call started from, as the call itself sees it: the     *)
(* counters after its day-rollover check, the limit, the pause it met.     *)
(***************************************************************************)
Called == op = "can_apply"
Denied == res.kind = "return" /\ ~res.allowed
PreRolled == pre.today # Date(pre.now)
AppsChecked == IF PreRolled THEN 0 ELSE pre.applications_today
ErrsChecked == IF PreRolled THEN 0 ELSE pre.consecutive_errors
PreLimit == DailyLimitOf(settings, pre.account_age_days)
PrePauseUnexpired ==
    pre.is_paused /\ pre.pause_until # None /\ pre.now < pre.pause_until
PrePauseExpired ==
    pre.is_paused /\ pre.pause_until # None /\ pre.now >= pre.pause_until
PreIntervalMultiple(a) ==
    /\ a > 0
    /\ settings.pause_after_applications # 0
    /\ PyMod(a, settings.pause_after_applications) = 0

\* C1: whenever applications_today >= get_daily_limit() after the rollover
\* check, can_apply returns allowed=false, and with no unexpired pause the
\* reason is the daily-limit reason.
C1_LimitDenies ==
    (Called /\ AppsChecked >= PreLimit) =>
        /\ Denied
        /\ ~PrePauseUnexpired => res.reason = "daily_limit"

C1_Witness ==
    /\ Called
    /\ AppsChecked >= PreLimit
    /\ ~PrePauseUnexpired
    /\ res.reason = "daily_limit"

\* C2 as claimed: whenever consecutive_errors >= max_consecutive_errors,
\* can_apply returns (false, abort reason).
C2_Original ==
    (Called /\ pre.consecutive_errors >= settings.max_consecutive_errors) =>
        (Denied /\ res.reason = "abort")

\* C2 as amended: whenever consecutive_errors >= max_consecutive_errors after
\* the rollover check, can_apply returns allowed=false, also below the daily
\* limit; the reason is the abort reason when no unexpired pause is held and
\* applications_today is below the limit.
C2_AbortDenies ==
    (Called /\ ErrsChecked >= settings.max_consecutive_errors) =>
        /\ Denied
        /\ (~PrePauseUnexpired /\ AppsChecked < PreLimit) =>
               res.reason = "abort"

C2_Witness ==
    /\ Called
    /\ ErrsChecked >= settings.max_consecutive_errors
    /\ AppsChecked < PreLimit
    /\ ~PrePauseUnexpired
    /\ res.reason = "abort"

\* C3: once an interval-triggered pause (of a minute or more) has elapsed,
\* a can_apply made below the daily limit and the error threshold, with no
\* record_* call since the pause began, returns allowed=true.
C3_PauseEnds ==
    ( /\ Called
      /\ settings.pause_duration_min >= 1
      /\ pre.pause_origin = "interval"
      /\ ~pre.recorded_since_pause
      /\ PrePauseExpired
      /\ AppsChecked < PreLimit
      /\ ErrsChecked < settings.max_consecutive_errors ) =>
        (res.kind = "return" /\ res.allowed)

\* C4 as claimed: once consecutive_errors has reached the threshold, every
\* later can_apply denies until reset_daily.
C4_Original ==
    (Called /\ abort_latched) => ~(res.kind = "return" /\ res.allowed)

\* C4 as amended: a state with consecutive_errors at the threshold is left
\* only by record_success, record_skip, reset_daily or the day rollover of
\* can_apply; record_failure, force_pause, set_account_age and the passage
\* of time keep it, and every can_apply made on the same day denies and
\* keeps the count.
C4_AbortPersists ==
    (pre.consecutive_errors >= settings.max_consecutive_errors) =>
        /\ op \in {"record_failure", "force_pause", "set_account_age", "tick"}
             => consecutive_errors >= settings.max_consecutive_errors
        /\ (Called /\ ~PreRolled) =>
             (Denied /\ consecutive_errors = pre.consecutive_errors)

C4_Witness ==
    /\ Called
    /\ ~PreRolled
    /\ pre.consecutive_errors >= settings.max_consecutive_errors
    /\ pre.now > NowStart
    /\ res.reason = "abort"

\* C5: can_apply returns the reason of the first block that applies, in the
\* order active pause, daily limit, consecutive errors, interval pause; a
\* denial for one of the first three starts no interval pause.
C5_BlockOrder ==
    Called =>
        /\ PrePauseUnexpired =>
             /\ res.reason = "pause_active"
             /\ is_paused = pre.is_paused
             /\ pause_until = pre.pause_until
        /\ (~PrePauseUnexpired /\ AppsChecked >= PreLimit) =>
             /\ res.reason = "daily_limit"
             /\ ~is_paused
             /\ pause_until = None
        /\ ( /\ ~PrePauseUnexpired
             /\ AppsChecked < PreLimit
             /\ ErrsChecked >= settings.max_consecutive_errors ) =>
             /\ res.reason = "abort"
             /\ ~is_paused
             /\ pause_until = None
        /\ res.reason = "interval_pause" =>
             /\ ~PrePauseUnexpired
             /\ AppsChecked < PreLimit
             /\ ErrsChecked < settings.max_consecutive_errors
             /\ PreIntervalMultiple(AppsChecked)

C5_Witness ==
    /\ Called
    /\ ~PrePauseUnexpired
    /\ AppsChecked >= PreLimit
    /\ ErrsChecked >= settings.max_consecutive_errors
    /\ PreIntervalMultiple(AppsChecked)
    /\ res.reason = "daily_limit"

\* C6 as claimed, on the configurations whose pause durations are a range
\* of positive minutes: whenever applications_today is a positive multiple
\* of pause_after_applications, can_apply returns (false, pause reason) and
\* sets pause_until strictly in the future, pause_duration_min to
\* pause_duration_max minutes from now.
C6_Original ==
    ( /\ Called
      /\ PreIntervalMultiple(pre.applications_today)
      /\ 1 <= settings.pause_duration_min
      /\ settings.pause_duration_min <= settings.pause_duration_max ) =>
        /\ Denied
        /\ res.reason \in {"interval_pause", "pause_active"}
        /\ pause_until # None
        /\ pause_until > now
        /\ pause_until - now \in
             settings.pause_duration_min..settings.pause_duration_max

\* C6 as amended: whenever, after the rollover check, applications_today is
\* a positive multiple of pause_after_applications, no unexpired pause is
\* held, applications_today is below the daily limit and consecutive_errors
\* below the threshold, can_apply with pause_duration_min <=
\* pause_duration_max returns (false, interval-pause reason) and sets
\* pause_until to now + d minutes, d in [pause_duration_min,
\* pause_duration_max], which is strictly in the future when
\* pause_duration_min >= 1; with pause_duration_min > pause_duration_max it
\* raises and sets no pause.
C6_IntervalPause ==
    ( /\ Called
      /\ PreIntervalMultiple(AppsChecked)
      /\ ~PrePauseUnexpired
      /\ AppsChecked < PreLimit
      /\ ErrsChecked < settings.max_consecutive_errors ) =>
        IF settings.pause_duration_min <= settings.pause_duration_max
          THEN /\ Denied
               /\ res.reason = "interval_pause"
               /\ is_paused
               /\ pause_until # None
               /\ pause_until - now \in
                    settings.pause_duration_min..settings.pause_duration_max
               /\ settings.pause_duration_min >= 1 => pause_until > now
          ELSE /\ res.kind = "raise"
               /\ ~is_paused
               /\ pause_until = None

C6_Witness ==
    /\ Called
    /\ PreIntervalMultiple(AppsChecked)
    /\ res.reason = "interval_pause"
    /\ settings.pause_duration_min >= 1
    /\ pause_until > now

\* The warm-up cap of an account age: its tier, or the default limit
WarmupCap(age) ==
    IF age \in {1, 2, 3} THEN 10 * age ELSE 40

\* C7: get_daily_limit() is min(daily_limit, warm-up cap) with warm-up
\* enabled, so never above daily_limit, and daily_limit with it disabled.
C7_NeverAboveConfigured ==
    op = "get_daily_limit" =>
        /\ res.value <= settings.daily_limit
        /\ res.value =
             IF settings.warmup_enabled
               THEN Min(settings.daily_limit, WarmupCap(account_age_days))
               ELSE settings.daily_limit

\* C8: with warm-up enabled get_daily_limit() is 10, 20, 30 for account
\* ages 1, 2, 3 and min(40, daily_limit) for every other age.
C8_WarmupTable ==
    (op = "get_daily_limit" /\ settings.warmup_enabled) =>
        res.value =
            CASE account_age_days = 1 -> 10
              [] account_age_days = 2 -> 20
              [] account_age_days = 3 -> 30
              [] OTHER -> Min(40, settings.daily_limit)

C8_Witness ==
    /\ op = "get_daily_limit"
    /\ settings.warmup_enabled
    /\ account_age_days = 2
    /\ settings.daily_limit = 50
    /\ res.value = 20

\* C9: can_apply sets applications_today and consecutive_errors to 0 and
\* today to the current date when today differs from the current date, and
\* leaves all three alone when it does not; after any can_apply today is the
\* current date, so a second call on that day changes none of them.
C9_Rollover ==
    Called =>
        /\ today = Date(now)
        /\ IF pre.today # Date(pre.now)
             THEN applications_today = 0 /\ consecutive_errors = 0
             ELSE /\ today = pre.today
                  /\ applications_today = pre.applications_today
                  /\ consecutive_errors = pre.consecutive_errors

C9_Witness ==
    /\ Called
    /\ pre.today # Date(pre.now)
    /\ pre.applications_today > 0
    /\ pre.consecutive_errors > 0
    /\ applications_today = 0
    /\ consecutive_errors = 0
    /\ today = Date(now)

\* C10 as claimed: while pause_until is set and in the future can_apply
\* denies with the pause reason and changes no counter.
C10_Original ==
    (Called /\ pre.pause_until # None /\ pre.now < pre.pause_until) =>
        /\ Denied
        /\ res.reason = "pause_active"
        /\ applications_today = pre.applications_today
        /\ consecutive_errors = pre.consecutive_errors

\* C10 as amended: while pause_until is set and in the future can_apply
\* denies with the pause reason, keeps the pause and changes no counter
\* other than by the day-rollover reset that comes before the pause check;
\* the first can_apply at or after pause_until clears is_paused and
\* pause_until before the later checks, so that it never answers with the
\* active-pause reason and leaves a pause only if it starts a new interval
\* pause from now.
C10_PauseBlocks ==
    (Called /\ pre.is_paused /\ pre.pause_until # None) =>
        IF pre.now < pre.pause_until
          THEN /\ Denied
               /\ res.reason = "pause_active"
               /\ is_paused
               /\ pause_until = pre.pause_until
               /\ applications_today = AppsChecked
               /\ consecutive_errors = ErrsChecked
          ELSE /\ res.reason # "pause_active"
               /\ IF res.reason = "interval_pause"
                    THEN is_paused /\ pause_until = now + res.minutes
                    ELSE ~is_paused /\ pause_until = None

C10_Witness ==
    /\ Called
    /\ PrePauseExpired
    /\ res.reason = "daily_limit"
    /\ ~is_paused
    /\ pause_until = None

\* The fields of OpSecState a call left as it found them
Kept(fields) ==
    /\ "today" \in fields => today = pre.today
    /\ "applications_today" \in fields =>
         applications_today = pre.applications_today
    /\ "consecutive_errors" \in fields =>
         consecutive_errors = pre.consecutive_errors
    /\ "account_age_days" \in fields =>
         account_age_days = pre.account_age_days
    /\ "is_paused" \in fields => is_paused = pre.is_paused
    /\ "pause_until" \in fields => pause_until = pre.pause_until

StateFields ==
    {"today", "applications_today", "consecutive_errors", "account_age_days",
     "is_paused", "pause_until"}

\* C11: on the current day, with no pause held, applications_today below
\* the limit, consecutive_errors below the threshold and applications_today
\* not a positive multiple of pause_after_applications, can_apply returns
\* (true, "") and leaves the Governor state unchanged.
C11_AllowsUnchanged ==
    ( /\ Called
      /\ ~PreRolled
      /\ ~pre.is_paused
      /\ pre.applications_today < PreLimit
      /\ pre.consecutive_errors < settings.max_consecutive_errors
      /\ ~PreIntervalMultiple(pre.applications_today) ) =>
        /\ res.kind = "return"
        /\ res.allowed
        /\ res.reason = ""
        /\ Kept(StateFields)

\* C12: record_success adds exactly 1 to applications_today, sets
\* consecutive_errors to 0 and leaves today, account_age_days, is_paused and
\* pause_until unchanged.
C12_RecordSuccess ==
    op = "record_success" =>
        /\ applications_today = pre.applications_today + 1
        /\ consecutive_errors = 0
        /\ Kept({"today", "account_age_days", "is_paused", "pause_until"})

C12_Witness ==
    /\ op = "record_success"
    /\ pre.consecutive_errors > 0
    /\ pre.is_paused
    /\ applications_today = pre.applications_today + 1
    /\ consecutive_errors = 0

\* C13: record_failure adds exactly 1 to consecutive_errors and leaves
\* applications_today (and every other field) unchanged; a can_apply that
\* denies with the daily-limit reason has applications_today at or over the
\* limit, whatever the number of failures.
C13_RecordFailure ==
    /\ op = "record_failure" =>
         /\ consecutive_errors = pre.consecutive_errors + 1
         /\ Kept(StateFields \ {"consecutive_errors"})
    /\ (Called /\ res.reason = "daily_limit") =>
         applications_today >= DailyLimitOf(settings, account_age_days)

C13_Witness ==
    /\ op = "record_failure"
    /\ pre.consecutive_errors >= 1
    /\ pre.applications_today > 0
    /\ applications_today = pre.applications_today
    /\ consecutive_errors = pre.consecutive_errors + 1

\* C14: record_skip sets consecutive_errors to 0 and leaves
\* applications_today, today, is_paused, pause_until and account_age_days
\* unchanged.
C14_RecordSkip ==
    op = "record_skip" =>
        /\ consecutive_errors = 0
        /\ Kept(StateFields \ {"consecutive_errors"})

C14_Witness ==
    /\ op = "record_skip"
    /\ pre.consecutive_errors > 0
    /\ pre.applications_today > 0
    /\ pre.is_paused
    /\ consecutive_errors = 0
    /\ applications_today = pre.applications_today

\* C15: can_apply never raises: for every configuration Settings accepts it
\* returns a (bool, reason) pair.
C15_NeverRaises ==
    Called => res.kind = "return"

\* C16: the applications_today that can_apply compares with the limit is
\* the number of successful applications of the current day, also when
\* initialize() has loaded it from a store holding FALHA, PULADO or PENDING
\* rows.
C16_SuccessesOnly ==
    Called => AppsChecked = TodayCountOf(candidaturas, pre.now, "SUCESSO")

\* The positions of a start() call that are inside _run_loop
LoopPcs == {"search", "wait", "attempt", "pause_sleep"}

Loops == { c \in CallIds : calls[c].pc \in LoopPcs }

\* C17: when can_apply is evaluated, every job attempt the loop has made has
\* been reported to the Governor by a record_* call.
C17_AttemptsRecorded ==
    Called => ~attempt_unrecorded

\* C19: at most one start() call is inside _run_loop at any time.
C19_SingleLoop ==
    Cardinality(Loops) <= 1

\* C18: no job attempt begins unless the last can_apply returned
\* allowed=true and no other attempt has begun since.
C18_AllowedFirst ==
    ~attempt_unallowed

\* C20: once stop() has been requested while a job is being processed, the
\* flag is observed at the next safe point, in particular between two form
\* pages: no further form page is begun with the stop flag set.
C20_StopBetweenPages ==
    ~flow.begun_stopped => ~page_after_stop

\* A step of _run_loop in which can_apply was evaluated
LoopCanApply(c) ==
    /\ ~stop_requested
    /\ SearchDone(c) \/ PauseWake(c) \/ AttemptDone(c)

\* can_apply denied for the daily limit or the consecutive-error threshold
FatalDenial(r) ==
    r.kind = "return" /\ ~r.allowed /\ r.reason \in {"daily_limit", "abort"}

\* C21: a loop step in which can_apply denies for the daily limit or the
\* consecutive-error threshold ends that loop: its start() call has
\* returned (it makes no further job attempt) and the bot state is IDLE.
C21_FatalHalts ==
    [][ \A c \in CallIds :
            (LoopCanApply(c) /\ FatalDenial(res')) =>
                (bot_state' = "IDLE" /\ calls'[c] = NoCall) ]_vars

C21_Witness ==
    /\ Called
    /\ FatalDenial(res)
    /\ res.reason = "abort"
    /\ bot_state = "IDLE"
    /\ Loops = {}
    /\ attempt_unrecorded = FALSE

(***************************************************************************)
(* The application flow: ApplyToJobUseCase.execute and                     *)
(* CamoufoxAdapter.apply_to_job.                                           *)
(***************************************************************************)
\* The orders in which execute() asks a page for its controls
PageOrders == { <<"submit">>, <<"submit", "review", "submit">>,
                <<"submit", "review", "next">> }

\* What execute() may have clicked on a page, for the order it asked in
PageClicks(tried) ==
    IF tried = <<"submit">> THEN { <<"submit">> }
    ELSE IF tried = <<"submit", "review", "submit">>
    THEN { <<"review">>, <<"review", "submit">> }
    ELSE { <<"next">>, <<>> }

\* The attempt has ended as a failure with the given reason
FlowFailed(message) ==
    flow.pc = "returned" /\ flow.result = "FAILED" /\ flow.message = message

ApplyFailed(message) ==
    apply.pc = "returned" /\ ~apply.success /\ apply.message = message

\* C22: on each form page the controls are tried in the order Submit,
\* Review (with a second Submit), Next; no lower-priority control is
\* clicked where a higher one was clicked; and a page (a step of
\* apply_to_job) on which none is found ends the attempt as FAILED with
\* the form-flow-not-completed reason.
C22_PriorityOrder ==
    /\ flow.tried # <<>> =>
          /\ flow.tried \in PageOrders
          /\ flow.clicked \in PageClicks(flow.tried)
          /\ flow.clicked = <<>> => FlowFailed("not_completed")
    /\ apply.outcome = "nothing" => ApplyFailed("not_completed")

\* The flow that was called has returned
FlowEnded ==
    /\ flow.pc \in {"off", "returned"}
    /\ apply.pc \in {"off", "returned"}

\* apply_to_job never goes past max_steps, and at max_steps it has returned
\* a failure: the timeout, or the error caught while closing the modal
StepsCapped ==
    /\ apply.step <= max_steps
    /\ apply.step = max_steps =>
          /\ apply.pc = "returned"
          /\ ~apply.success
          /\ apply.message = "timeout" \/ apply.caught

\* C23 (amended): every attempt returns; execute() processes at most
\* MAX_FORM_PAGES pages and apply_to_job at most max_steps steps; at the
\* cap execute() returns FAILED with the form-flow-not-completed reason
\* and apply_to_job a failure with the timeout reason.
C23_Terminates ==
    /\ [](/\ flow.page_num <= MAX_FORM_PAGES
          /\ flow.page_num = MAX_FORM_PAGES => FlowFailed("not_completed")
          /\ StepsCapped)
    /\ <>FlowEnded

\* C23 as stated: at the cap both flows end in FAILED with a
\* form-too-complex/timeout reason
C23_Original ==
    /\ flow.page_num <= MAX_FORM_PAGES
    /\ flow.page_num = MAX_FORM_PAGES => FlowFailed("timeout")
    /\ StepsCapped

C23_Witness ==
    /\ flow.page_num = MAX_FORM_PAGES
    /\ flow.clicked = <<"next">>
    /\ FlowFailed("not_completed")

C25_TokensAccounted ==
    flow.pc = "returned" => flow.tokens_used = flow.spent

\* The job execute() is called for
FlowJob == 1

\* C26: for a job whose identifier is already recorded as applied in the
\* store, execute() clicks no apply control and parses no form fields, and
\* unless the listing itself could not be read it ends as SKIPPED.
C26_DuplicateSkipped ==
    JobAlreadyApplied(FlowJob) =>
        /\ ~flow.apply_clicked
        /\ ~flow.fields_parsed
        /\ (flow.pc = "returned" /\ flow.message \notin {"exception", "parse"})
              => flow.result = "SKIPPED"

ClaimedChoice(options, answer) ==
    IF ExactHits(options, answer) # {}
    THEN FirstOf(options, ExactHits(options, answer))
    ELSE IF RelatedHits(options, answer) # {}
    THEN FirstOf(options, RelatedHits(options, answer))
    ELSE Written(options[1])

\* The oracle's answer as the code path reads it: AIFormFiller strips it
AnswerRead ==
    IF fill.path = "get_selected_option" THEN fill.oracle.text
    ELSE Strip(fill.oracle.text)

\* C28: for every non-empty option list and every oracle answer the field
\* is set to a member of the list: the exact case-insensitive match if there
\* is one, otherwise the first option related to the answer by containment
\* in either direction, otherwise the first option; for select, radio and
\* dropdown alike.  Stated here for the answers that are not blank.
C28_ChoiceResolved ==
    (/\ fill.pc = "done"
     /\ fill.kind = "choice"
     /\ fill.oracle.kind = "text"
     /\ Strip(fill.oracle.text) # <<>>)
        => fill.written = ClaimedChoice(fill.options, AnswerRead)

\* The identity keyword sets, with the candidate's value for each
IdentityKeywords == {"name", "email", "phone"}

\* C29: for a free-text field whose label matches the name, email or phone
\* keyword set (one of them only) and a candidate whose value for it is not
\* empty, the value written to the field is that stored value, for every
\* oracle answer and in every code path that fills text fields.
C29_IdentityKept ==
    \A k \in IdentityKeywords :
        (/\ fill.pc = "done"
         /\ fill.kind = "text"
         /\ fill.label = {k}
         /\ fill.candidate[k] # <<>>
         /\ fill.oracle.kind = "text")
            => fill.written = Written(fill.candidate[k])

\* C30: an oracle failure while one field is resolved leaves the attempt on
\* its page, with the remaining fields and the navigation step still to
\* come: the attempt is not ended as FAILED by it.
C30_OracleFailureLocal ==
    flow.last_oracle \in OracleFailures =>
        /\ flow.pc = "fields"
        /\ flow.result = "NONE"


\* C31: on every form page, a text or textarea input whose current value is
\* non-empty is neither in the list of fields to fill nor cleared or
\* overwritten by the flow.
PrefilledInputs ==
    {i \in 1..Len(form.elements) :
        form.elements[i].kind \in TextKinds /\ form.elements[i].value}

FieldSet == {form.fields[k] : k \in 1..Len(form.fields)}

C31_PrefilledSkipped ==
    form.pc \in {"fields", "raised", "done"} =>
        /\ PrefilledInputs \cap FieldSet = {}
        /\ PrefilledInputs \cap form.overwritten = {}

\* C32: an exception while probing one element omits only that field; every
\* other detectable field of the page, of every kind, is returned.
Detectable ==
    {i \in 1..Len(form.elements) :
        /\ ~form.elements[i].raises
        /\ form.elements[i].kind \in TextKinds => ~form.elements[i].value
        /\ form.elements[i].kind = "text" => ~form.elements[i].value_attr}

C32_BestEffortPerField ==
    form.pc \in {"fields", "raised", "done"} => Detectable \subseteq FieldSet


\* C33: after any sequence of save_application calls the table holds at
\* most one record per job_id, that record carries the fields of the most
\* recent save for the job_id, and a save leaves the records of the other
\* job_ids as they were.
RowsOfJob(rows, j) == {r \in rows : r.job_id = j}

OneRecordPerJob ==
    \A j \in JobIds :
        IF db.saved[j] = NoApplication
        THEN RowsOfJob(db.rows, j) = {}
        ELSE \E r \in db.rows :
                 /\ RowsOfJob(db.rows, j) = {r}
                 /\ r = RowOf(db.saved[j], r.id)

OtherJobsKept ==
    db'.seq # db.seq =>
        \A j \in JobIds :
            db'.saved[j] = db.saved[j] /\ db'.lastrowid \notin
                {r.id : r \in RowsOfJob(db'.rows, j)} =>
                    RowsOfJob(db'.rows, j) = RowsOfJob(db.rows, j)

C33_UpsertByJobId == []OneRecordPerJob /\ [][OtherJobsKept]_vars

\* The second of two saves, for the job_id of the first
C33_Witness ==
    /\ db.seq = 2
    /\ \E r \in db.rows : db.rows = {r} /\ r.id = 2

\* C34: an Application saved and read back by its job_id has the same
\* job_id, empresa, titulo, localizacao, status, motivo_log, tokens_ia and
\* data_hora, whatever its status.
RoundTripFields ==
    {"job_id", "empresa", "titulo", "localizacao", "status", "motivo_log",
     "tokens_ia", "data_hora"}

C34_RoundTrip ==
    (db.loaded.read /\ db.saved[db.loaded.job_id] # NoApplication) =>
        /\ db.loaded.found # NoApplication
        /\ \A f \in RoundTripFields :
               db.loaded.found[f] = db.saved[db.loaded.job_id][f]

C34_Witness ==
    /\ db.loaded.read
    /\ db.loaded.found # NoApplication
    /\ db.loaded.found.status = "FALHA"
    /\ db.loaded.found.data_hora.microsecond # 0
    /\ db.loaded.found.data_hora.tzinfo = "utc"


StatusRemaining ==
    DailyLimitOf(settings, account_age_days) - applications_today

\* C38: from applications_today = 0, with the configuration and the account
\* age fixed and record_success called once per allowed can_apply only,
\* applications_today never exceeds get_daily_limit() and the remaining
\* count of get_status() is never negative.
C38_CountWithinLimit ==
    /\ applications_today <= DailyLimitOf(settings, account_age_days)
    /\ StatusRemaining >= 0

\* The last allowance of the day has been used
C38_Witness ==
    /\ op = "record_success"
    /\ applications_today > 0
    /\ StatusRemaining = 0


\* A fault escapes the automation loop of call c: search_jobs raises, or
\* can_apply raises at the top of the loop
FaultEscapes(c) ==
    \/ At(c, "search") /\ CallRaises(c)
    \/ LoopCanApply(c) /\ res'.kind = "raise"

\* C35: when a fault escapes the automation loop, the orchestration shuts
\* down cleanly: the browser driver is closed and the bot state is not
\* RUNNING.
C35_FaultShutsDown ==
    [][ \A c \in CallIds :
            FaultEscapes(c) => (bot_state' # "RUNNING" /\ ~browser_set') ]_vars

\* The Governor's pause is running
GovernorPaused(paused, until, clock) ==
    paused /\ until # None /\ clock < until

\* C36: a pause denial does not end the loop: the loop sets PAUSED and
\* sleeps; when it wakes it re-evaluates can_apply, going on as RUNNING when
\* allowed; it ends while the pause is running only if a stop was requested.
C36_PauseKeepsLoop ==
    [][ \A c \in CallIds :
            /\ (LoopCanApply(c) /\ ~res'.allowed /\ res'.kind = "return"
                  /\ HasPausa(res'.reason)) =>
                   (bot_state' = "PAUSED" /\ calls'[c].pc = "pause_sleep")
            /\ (PauseWake(c) /\ ~stop_requested) =>
                   /\ op' = "can_apply"
                   /\ res'.allowed =>
                          (bot_state' = "RUNNING" /\ calls'[c].pc = "wait")
            /\ ((SearchDone(c) \/ PauseWake(c) \/ AttemptDone(c))
                  /\ calls'[c] = NoCall
                  /\ GovernorPaused(is_paused', pause_until', now')) =>
                   stop_requested ]_vars

\* can_apply found the pause still running and the loop sleeps again
C36_Witness ==
    /\ Called
    /\ pre.is_paused
    /\ res.reason = "pause_active"
    /\ bot_state = "PAUSED"
    /\ \E c \in CallIds : calls[c].pc = "pause_sleep" /\ calls[c].wake_at > now

\* C40: whenever start() returns, the bot state is IDLE or ERROR, also when
\* _run_loop returns early for want of a job filter, browser or Governor.
C40_ReturnsNotRunning ==
    [][ \A c \in CallIds :
            /\ (Login(c) /\ calls'[c] = NoCall) =>
                   bot_state' \in {"IDLE", "ERROR"}
            /\ ((SearchDone(c) \/ PauseWake(c) \/ AttemptDone(c))
                  /\ calls'[c] = NoCall /\ res'.kind # "raise") =>
                   bot_state' \in {"IDLE", "ERROR"} ]_vars


\* C39: an attempt is reported successful only if a Submit control was
\* clicked during it: neither execute() nor apply_to_job() returns success
\* after Next or Review clicks only, or with no click at all.
C39_SuccessAfterSubmit ==
    /\ (flow.pc = "returned" /\ flow.result = "SUCCESS") =>
           \E k \in 1..Len(flow.clicked) : flow.clicked[k] = "submit"
    /\ (apply.pc = "returned" /\ apply.success) => apply.submit_clicked

=============================================================================
